---- MODULE Spec2Model ----
(***************************************************************************)
(* Task data-access and validation layer of the to-do application:         *)
(* TaskValidator / TaskMapper (types/taskTypes.ts), TaskService            *)
(* (services/taskServices.ts) and TaskController                           *)
(* (controller/taskController.ts), running against a remote document       *)
(* store and an authentication provider.                                   *)
(*                                                                         *)
(* Every asynchronous method is cut at its awaits: the synchronous prefix  *)
(* up to the first remote call is one step, and each remote call resolves  *)
(* in one later step that applies the call to the store (or fails) and     *)
(* runs the continuation up to the next await.  Between the two steps the  *)
(* session of the client may change and other clients may act.             *)
(***************************************************************************)
EXTENDS Integers, Sequences, FiniteSets, TLC

(***************************************************************************)
(* Values.  A JavaScript value that may be undefined is a sequence of      *)
(* length at most one: None is undefined, Some(v) is the value v.  A       *)
(* string is a sequence of one-character strings.                          *)
(***************************************************************************)
None == << >>

Some(v) == << v >>

Val(o) == o[1]

Rep(ch, n) == [i \in 1..n |-> ch]

Str0 == << >>

\* the value of obj.key: undefined when the key is missing
Get(obj, key) == IF key \in DOMAIN obj THEN obj[key] ELSE None

RECURSIVE trimStart(_)
trimStart(s) ==
  IF s # << >> /\ Head(s) = " " THEN trimStart(Tail(s)) ELSE s

RECURSIVE trimEnd(_)
trimEnd(s) ==
  IF s # << >> /\ s[Len(s)] = " " THEN trimEnd(SubSeq(s, 1, Len(s) - 1)) ELSE s

\* String.prototype.trim
trim(s) == trimEnd(trimStart(s))

\* String.prototype.toLowerCase, on the letters of the inputs
toLowerCase(s) ==
  [i \in 1..Len(s) |-> CASE s[i] = "A" -> "a" [] s[i] = "B" -> "b"
                           [] s[i] = "D" -> "d" [] OTHER -> s[i]]

\* String.prototype.includes
includes(s, part) ==
  \E i \in 0..(Len(s) - Len(part)) : SubSeq(s, i + 1, i + Len(part)) = part

\* truthiness of an optional string: undefined and '' are falsy
TruthyStr(o) == o # None /\ Val(o) # Str0

(***************************************************************************)
(* Time.  Instants are integers (milliseconds); a day has TicksPerDay of   *)
(* them.  A Timestamp of the store keeps seconds and nanoseconds.          *)
(***************************************************************************)
MaxClock == 1

TicksPerDay == 2

\* new Date(new Date().setHours(0, 0, 0, 0))
startOfToday(now) == now - (now % TicksPerDay)

\* Timestamp.fromDate
TimestampFromDate(d) ==
  [seconds |-> d \div 1000, nanoseconds |-> (d % 1000) * 1000000]

\* Timestamp.toDate
TimestampToDate(ts) == ts.seconds * 1000 + (ts.nanoseconds \div 1000000)

(***************************************************************************)
(* TaskValidator                                                           *)
(***************************************************************************)
MAX_TITLE_LENGTH == 100

MAX_DESCRIPTION_LENGTH == 500

MsgTitleRequired == "El titulo es obligatorio"

MsgTitleLength == "El titulo no puede tener mas de 100 caracteres"

MsgDescLength == "La descripcion no puede tener mas de 500 caracteres"

MsgDatePast == "La fecha no puede ser anterior a hoy"

ValidationMessages ==
  {MsgTitleRequired, MsgTitleLength, MsgDescLength, MsgDatePast}

\* a TypeError raised by reading a property of undefined or null
MsgTypeError == "TypeError"

ValidationOf(errors) ==
  [threw |-> FALSE, isValid |-> errors = << >>, errors |-> errors]

ValidationThrew == [threw |-> TRUE, isValid |-> FALSE, errors |-> << >>]

\* a required-title rule that does not trim
titleRequiredErrorsUntrimmed(titulo) ==
  IF ~TruthyStr(titulo) THEN << MsgTitleRequired >> ELSE << >>

\* the required-title rule of validateTitle
titleRequiredErrors(titulo) ==
  IF ~TruthyStr(titulo) \/ trim(Val(titulo)) = Str0
    THEN << MsgTitleRequired >> ELSE << >>

\* the length rule of validateTitle
titleLengthErrors(titulo) ==
  IF Len(Val(titulo)) > MAX_TITLE_LENGTH THEN << MsgTitleLength >> ELSE << >>

\* titulo.length of an undefined titulo raises a TypeError
validateTitle(titulo) ==
  IF titulo = None
    THEN ValidationThrew
    ELSE ValidationOf(titleRequiredErrors(titulo) \o titleLengthErrors(titulo))

validateDescription(descripcion) ==
  ValidationOf(
    IF TruthyStr(descripcion) /\ Len(Val(descripcion)) > MAX_DESCRIPTION_LENGTH
      THEN << MsgDescLength >> ELSE << >>)

validateDate(fecha, now) ==
  ValidationOf(
    IF fecha # None /\ Val(fecha) < startOfToday(now)
      THEN << MsgDatePast >> ELSE << >>)

validateTask(task, now) ==
  LET t == IF "titulo" \in DOMAIN task
             THEN validateTitle(task.titulo) ELSE ValidationOf(<< >>)
      d == IF "descripcion" \in DOMAIN task
             THEN validateDescription(task.descripcion) ELSE ValidationOf(<< >>)
      f == IF "fecha" \in DOMAIN task
             THEN validateDate(task.fecha, now) ELSE ValidationOf(<< >>)
  IN  IF t.threw THEN ValidationThrew
      ELSE ValidationOf(t.errors \o d.errors \o f.errors)

(***************************************************************************)
(* TaskMapper                                                              *)
(***************************************************************************)
\* Boolean(x) of an optional boolean
ToBoolean(o) == o # None /\ Val(o)

\* a stored value has the method toDate: it is a Timestamp.  A value of
\* another kind, such as a date kept as text, is a record without seconds
hasToDate(v) == "seconds" \in DOMAIN v

\* data.Fecha?.toDate() and data.createdAt?.toDate() raise a TypeError on a
\* value that is there and has no such method
fromFirestoreThrows(data) ==
  \/ data.Fecha # None /\ ~hasToDate(Val(data.Fecha))
  \/ data.createdAt # None /\ ~hasToDate(Val(data.createdAt))

\* a mapper that reads the description under the name the Task gives it
fromFirestoreLowercase(id, data, now) ==
  [ id          |-> id,
    titulo      |-> IF TruthyStr(data.titulo) THEN Val(data.titulo) ELSE Str0,
    descripcion |-> IF TruthyStr(Get(data, "descripcion"))
                      THEN data.descripcion ELSE None,
    completed   |-> ToBoolean(data.completed),
    fecha       |-> IF data.Fecha # None
                      THEN Some(TimestampToDate(Val(data.Fecha))) ELSE None,
    userId      |-> IF data.userId # None THEN Val(data.userId) ELSE "",
    createdAt   |-> IF data.createdAt # None
                      THEN TimestampToDate(Val(data.createdAt)) ELSE now ]

fromFirestore(id, data, now) ==
  [ id          |-> id,
    titulo      |-> IF TruthyStr(data.titulo) THEN Val(data.titulo) ELSE Str0,
    descripcion |-> IF TruthyStr(data.Descripcion) THEN data.Descripcion ELSE None,
    completed   |-> ToBoolean(data.completed),
    fecha       |-> IF data.Fecha # None
                      THEN Some(TimestampToDate(Val(data.Fecha))) ELSE None,
    userId      |-> IF data.userId # None THEN Val(data.userId) ELSE "",
    createdAt   |-> IF data.createdAt # None
                      THEN TimestampToDate(Val(data.createdAt)) ELSE now ]

\* a mapper that keeps the whole seconds of the due date
toFirestoreWholeSeconds(task, userId, now) ==
  [ titulo      |-> Get(task, "titulo"),
    Descripcion |-> IF TruthyStr(Get(task, "descripcion"))
                      THEN task.descripcion ELSE None,
    completed   |-> Some(ToBoolean(Get(task, "completed"))),
    Fecha       |-> IF Get(task, "fecha") # None
                      THEN Some([seconds |-> Val(task.fecha) \div 1000,
                                 nanoseconds |-> 0])
                      ELSE None,
    userId      |-> Some(userId),
    createdAt   |-> Some(TimestampFromDate(now)) ]

toFirestore(task, userId, now) ==
  [ titulo      |-> Get(task, "titulo"),
    Descripcion |-> IF TruthyStr(Get(task, "descripcion"))
                      THEN task.descripcion ELSE None,
    completed   |-> Some(ToBoolean(Get(task, "completed"))),
    Fecha       |-> IF Get(task, "fecha") # None
                      THEN Some(TimestampFromDate(Val(task.fecha))) ELSE None,
    userId      |-> Some(userId),
    createdAt   |-> Some(TimestampFromDate(now)) ]

\* the field of the store an update key is written to, and its stored value
updateField(key) ==
  CASE key = "titulo" -> "titulo"
    [] key = "descripcion" -> "Descripcion"
    [] key = "completed" -> "completed"
    [] key = "fecha" -> "Fecha"

updateValue(key, v) ==
  CASE key = "titulo" -> v
    [] key = "descripcion" -> v
    [] key = "completed" -> Some(ToBoolean(v))
    [] key = "fecha" -> Some(TimestampFromDate(Val(v)))

UpdateKeys == {"titulo", "descripcion", "completed", "fecha"}

\* the keys updateToFirestore copies: those whose value is not undefined
copiedKeys(updates) == {k \in UpdateKeys : Get(updates, k) # None}

\* an update that writes completed whether or not the payload has it
updateToFirestoreCompleted(updates) ==
  LET ks == copiedKeys(updates) \cup {"completed"}
  IN  [f \in {updateField(k) : k \in ks} |->
         LET k == CHOOSE k \in ks : updateField(k) = f
         IN  updateValue(k, Get(updates, k))]

\* an update that passes owner and creation time of the payload on
updateToFirestoreRaw(updates) ==
  LET ks == copiedKeys(updates)
      own == {"userId", "createdAt"} \cap DOMAIN updates
  IN  [f \in {updateField(k) : k \in ks} \cup own |->
         IF f \in own THEN updates[f]
         ELSE LET k == CHOOSE k \in ks : updateField(k) = f
              IN  updateValue(k, updates[k])]

updateToFirestore(updates) ==
  LET ks == copiedKeys(updates)
  IN  [f \in {updateField(k) : k \in ks} |->
         LET k == CHOOSE k \in ks : updateField(k) = f
         IN  updateValue(k, updates[k])]

(***************************************************************************)
(* Error messages of TaskService and TaskController                        *)
(***************************************************************************)
MsgUnauthenticated == "Usuario no autenticado"

MsgForbidden == "No tienes permisos para acceder a esta tarea"

MsgNoPermList == "No tienes permisos para acceder a las tareas"

MsgNoPermCreate == "No tienes permisos para crear tareas"

MsgNotFound == "Tarea no encontrada"

MsgListFailed == "Error al obtener las tareas"

MsgCreateFailed == "Error al crear la tarea"

MsgGetFailed == "Error al obtener la tarea"

MsgUpdateFailed == "Error al actualizar la tarea"

MsgDeleteFailed == "Error al eliminar la tarea"

MsgBatchFailed == "Error al actualizar tareas en lote"

MsgIdRequired == "ID de tarea requerido"

MsgSearchFailed == "Error al buscar tareas"

MsgCountsFailed == "Error al obtener estadisticas de tareas"

\* the message of an error raised by the client of the store
MsgStoreError == "FirestoreError"

\* error.message.includes('permisos')
includesPermisos(msg) == msg \in {MsgForbidden, MsgNoPermList, MsgNoPermCreate}

\* error.message.includes('Tarea no encontrada')
includesNotFound(msg) == msg = MsgNotFound

\* the messages the layer gives a failure of the remote store
StoreUnavailableMessages ==
  {MsgListFailed, MsgCreateFailed, MsgGetFailed, MsgUpdateFailed,
   MsgDeleteFailed, MsgBatchFailed, MsgNoPermList, MsgNoPermCreate}

(***************************************************************************)
(* The state                                                               *)
(***************************************************************************)
MaxDocs == 3

\* how many tasks the clients create
MaxTasks == 1

MaxBatch == 2

\* how many tasks the lists and searches run over
MaxListed == 2

\* how many tasks the statistics count
MaxCounted == 3

Users == {"uA", "uB"}

NoUser == "null"

Clients == {"c1", "c2"}

DocIds == 1..MaxDocs

\* the empty string as a task id
BlankId == MaxDocs + 2

\* an id that resolves to no record, ever
UnknownId == MaxDocs + 1

TaskIds == DocIds \cup {UnknownId, BlankId}

\* how a remote call ends
StoreOutcomes == {"ok", "permission-denied", "unavailable"}

VARIABLES
  store,     \* the collection: document id -> None | Some(record)
  nextId,    \* how many ids addDoc has assigned
  session,   \* auth.currentUser of each client: a uid or NoUser
  now,       \* the clock
  call,      \* the method call each client has in progress, or its result;
             \* reply, remotes and writes are history: how the last remote
             \* call ended, how many were issued, how many of them writes
  origin,    \* history: id -> None | Some(owner and createdAt given at creation)
  deleted    \* history: the ids a deleteDoc has removed

\* the state of the task layer
taskVars == << store, nextId, session, now, call, origin, deleted >>

\* AlarmService (one instance) and the runtime it runs on
VARIABLES
  isFlashActive,  \* AlarmService.isFlashActive
  flashTimeout,   \* AlarmService.flashTimeout: None | Some(timer handle)
  timers,         \* the handles of the timers the runtime has pending
  timerIds,       \* how many handles setTimeout has returned
  fired,          \* history: the handles of the timers that have fired
  microtasks,     \* the callers whose triggerFlash awaits enableFlash, in order
  alarmCall       \* the call of AlarmService each caller has in progress

alarmVars ==
  << isFlashActive, flashTimeout, timers, timerIds, fired, microtasks, alarmCall >>

vars == << taskVars, alarmVars >>

ResNone == [status |-> "none", msg |-> "", val |-> << >>]

Err(msg) == [status |-> "error", msg |-> msg, val |-> << >>]

Ok(val) == [status |-> "ok", msg |-> "", val |-> val]

Null == [status |-> "null", msg |-> "", val |-> << >>]

IdleCall ==
  [ op |-> "none", via |-> "service", pc |-> "idle", taskId |-> UnknownId,
    data |-> << >>, write |-> << >>, rest |-> << >>, stage |-> 0,
    uid |-> NoUser, res |-> ResNone, reply |-> "none", remotes |-> 0,
    writes |-> 0 ]

\* a new call of op on taskId with payload data
NewCall(op, via, taskId, data) ==
  [IdleCall EXCEPT !.op = op, !.via = via, !.taskId = taskId, !.data = data]

\* the call settles: its promise resolves or rejects with res
Finish(k, res) ==
  [k EXCEPT !.pc = "done", !.res = res, !.write = << >>, !.rest = << >>,
            !.stage = 0, !.uid = NoUser]

\* the call issues a remote request and awaits it
Await(k, pc) == [k EXCEPT !.pc = pc, !.remotes = @ + 1]

AwaitWrite(k, pc, w) ==
  [k EXCEPT !.pc = pc, !.write = w, !.remotes = @ + 1, !.writes = @ + 1]

\* the callers of AlarmService
AlarmCallers == {"a1", "a2"}

\* how many timers the callers get scheduled
MaxTimers == 2

AlarmType == [VIBRATION |-> "vibration", FLASH |-> "flash", BOTH |-> "both"]

AlarmResponse(success, message, error) ==
  [success |-> success, message |-> message, error |-> error]

\* triggerVibration / triggerFlash of a call: not called, awaiting, or settled
\* with its AlarmResponse
NotCalled == [st |-> "none", res |-> << >>]

Pending == [st |-> "pending", res |-> << >>]

Settled(response) == [st |-> "settled", res |-> << response >>]

IdleAlarmCall ==
  [ op |-> "none", pc |-> "idle", type |-> AlarmType.BOTH,
    vibration |-> NotCalled, flash |-> NotCalled, res |-> << >> ]

\* new AlarmService(): the flash is off and no timer is kept
InitAlarmService ==
  /\ isFlashActive = FALSE
  /\ flashTimeout = None
  /\ timers = {}
  /\ timerIds = 0
  /\ fired = {}
  /\ microtasks = << >>
  /\ alarmCall = [c \in AlarmCallers |-> IdleAlarmCall]

CanStart(c) == call[c].pc = "idle"

Init ==
  /\ store = [i \in DocIds |-> None]
  /\ nextId = 0
  /\ session = [c \in Clients |-> NoUser]
  /\ now = 0
  /\ call = [c \in Clients |-> IdleCall]
  /\ origin = [i \in DocIds |-> None]
  /\ deleted = {}
  /\ InitAlarmService

(***************************************************************************)
(* The authentication provider and the clock                               *)
(***************************************************************************)
Login(c, u) ==
  /\ session[c] # u
  /\ session' = [session EXCEPT ![c] = u]
  /\ UNCHANGED << store, nextId, now, call, origin, deleted, alarmVars >>

Logout(c) ==
  /\ session[c] # NoUser
  /\ session' = [session EXCEPT ![c] = NoUser]
  /\ UNCHANGED << store, nextId, now, call, origin, deleted, alarmVars >>

Tick ==
  /\ now < MaxClock
  /\ now' = now + 1
  /\ UNCHANGED << store, nextId, session, call, origin, deleted, alarmVars >>

(***************************************************************************)
(* The remote store.  A record keeps the six fields of TaskFirestore; a     *)
(* field that is None is not in the record (it was undefined when the      *)
(* record was written).  A client set up to reject undefined values fails  *)
(* such a write instead: one of the failing outcomes of StoreOutcomes.     *)
(* Ids are assigned once and never again; updateDoc fails on an id without *)
(* record, deleteDoc does not.                                             *)
(***************************************************************************)
\* a write that replaces the record: the fields w lacks are lost
mergeReplacing(doc, w) ==
  [f \in DOMAIN doc \cup DOMAIN w |-> IF f \in DOMAIN w THEN w[f] ELSE None]

\* updateDoc: the fields of w replace those of doc, the others stay
merge(doc, w) ==
  [f \in DOMAIN doc \cup DOMAIN w |-> IF f \in DOMAIN w THEN w[f] ELSE doc[f]]

\* a query without its where clause
queryIdsOfAll(uid) == {i \in DocIds : store[i] # None}

\* the documents of the query where('userId', '==', uid)
queryIds(uid) ==
  {i \in DocIds : store[i] # None /\ Val(store[i]).userId = Some(uid)}

\* orderBy('createdAt', 'desc'): s lists the ids of S, newest first
IsDescending(s, S) ==
  /\ Len(s) = Cardinality(S)
  /\ {s[i] : i \in 1..Len(s)} = S
  /\ \A i, j \in 1..Len(s) :
       i < j => TimestampToDate(Val(Val(store[s[i]]).createdAt))
                  >= TimestampToDate(Val(Val(store[s[j]]).createdAt))

(***************************************************************************)
(* TaskService, the synchronous prefix of each method                      *)
(***************************************************************************)
\* how the catch block of a method reports an error thrown inside its try
catchGetTaskById(msg) == IF includesPermisos(msg) THEN msg ELSE MsgGetFailed

\* a catch block that rethrows nothing
catchUpdateTaskGeneric(msg) == MsgUpdateFailed

catchUpdateTask(msg) ==
  IF includesNotFound(msg) \/ includesPermisos(msg) THEN msg ELSE MsgUpdateFailed

\* a catch block that rethrows whatever it caught
catchDeleteTaskRethrowing(msg) == msg

catchDeleteTask(msg) ==
  IF includesNotFound(msg) \/ includesPermisos(msg) THEN msg ELSE MsgDeleteFailed

catchByCode(outcome, denied, other) ==
  IF outcome = "permission-denied" THEN denied ELSE other

\* the catch block of the method that called getTaskById
catchOf(op, msg) ==
  CASE op = "getTaskById" -> msg
    [] op = "updateTask" -> catchUpdateTask(msg)
    [] op = "deleteTask" -> catchDeleteTask(msg)
    [] op = "toggleTaskCompletion" -> catchUpdateTask(msg)
    [] op = "batchUpdateTasks" -> MsgBatchFailed

\* TaskService.getTaskById up to its await of getDoc: ensureAuthenticated
\* throws outside the try; doc() throws inside it on an empty id.  outer is
\* the catch block of the method that awaits getTaskById.
enterGetTaskById(k, sess, outer) ==
  IF sess = NoUser THEN Finish(k, Err(outer[MsgUnauthenticated]))
  ELSE IF k.taskId = BlankId THEN Finish(k, Err(outer[catchGetTaskById(MsgStoreError)]))
  ELSE Await(k, "getDoc")

AllMessages ==
  {MsgUnauthenticated, MsgForbidden, MsgNoPermList, MsgNoPermCreate, MsgNotFound,
   MsgListFailed, MsgCreateFailed, MsgGetFailed, MsgUpdateFailed, MsgDeleteFailed,
   MsgBatchFailed, MsgIdRequired, MsgTypeError, MsgStoreError}
    \cup ValidationMessages

\* the message an error of getTaskById has once the caller's catch has seen it
outerOf(op) == [m \in AllMessages |-> catchOf(op, m)]

\* an error of ensureAuthenticated leaves the method uncaught, except inside
\* the try of batchUpdateTasks
unauthOf(op) == IF op = "batchUpdateTasks" THEN MsgBatchFailed ELSE MsgUnauthenticated

\* TaskService.updateTask / deleteTask up to the await inside getTaskById
enterCheckedWrite(k, sess) ==
  IF sess = NoUser THEN Finish(k, Err(unauthOf(k.op)))
  ELSE enterGetTaskById(k, sess, outerOf(k.op))

\* createTask without ensureAuthenticated
enterCreateTaskAnyone(k, sess, t) ==
  [AwaitWrite(k, "addDoc", toFirestore(k.data, sess, t)) EXCEPT !.uid = sess]

\* TaskService.createTask up to its await of addDoc
enterCreateTask(k, sess, t) ==
  IF sess = NoUser THEN Finish(k, Err(MsgUnauthenticated))
  ELSE [AwaitWrite(k, "addDoc", toFirestore(k.data, sess, t)) EXCEPT !.uid = sess]

\* TaskService.getUserTasks up to its await of getDocs
enterGetUserTasks(k, sess) ==
  IF sess = NoUser THEN Finish(k, Err(MsgUnauthenticated))
  ELSE [Await(k, "getDocs") EXCEPT !.uid = sess]

\* !searchTerm?.trim()
blankTerm(term) == term = None \/ trim(Val(term)) = Str0

\* a filter that does not lower the case of the title
matchesTermAsWritten(task, term) ==
  \/ includes(task.titulo, term)
  \/ TruthyStr(task.descripcion) /\ includes(toLowerCase(Val(task.descripcion)), term)

\* the filter of searchTasks; term is lowered and trimmed
matchesTerm(task, term) ==
  \/ includes(toLowerCase(task.titulo), term)
  \/ TruthyStr(task.descripcion) /\ includes(toLowerCase(Val(task.descripcion)), term)

\* searchTasks of the service and of the controller once the list is there
searchTasks(allTasks, searchTerm) ==
  IF blankTerm(searchTerm) THEN allTasks
  ELSE LET term == trim(toLowerCase(Val(searchTerm)))
           Test(task) == matchesTerm(task, term)
       IN  SelectSeq(allTasks, Test)

\* tasks.filter(task => task.completed).length
completedCount(tasks) == Cardinality({i \in 1..Len(tasks) : tasks[i].completed})

\* TaskService.getTaskCounts once the list is there
getTaskCounts(tasks) ==
  [ total     |-> Len(tasks),
    completed |-> completedCount(tasks),
    pending   |-> Len(tasks) - completedCount(tasks) ]

\* Math.round(x * 100) of the fraction x = num / den: the nearest integer,
\* the upper one of two that are equally near
roundTimes100(num, den) == (2 * 100 * num + den) \div (2 * den)

\* statistics that cut the rate off after its second decimal
getTaskStatsTruncated(tasks) ==
  [ total     |-> Len(tasks),
    completed |-> completedCount(tasks),
    pending   |-> Len(tasks) - completedCount(tasks),
    completionRate |->
      IF Len(tasks) > 0
        THEN (100 * 100 * completedCount(tasks)) \div Len(tasks) ELSE 0 ]

\* TaskController.getTaskStats once the list is there.  completionRate is
\* kept in hundredths: 3333 is the number 33.33
getTaskStats(tasks) ==
  [ total     |-> Len(tasks),
    completed |-> completedCount(tasks),
    pending   |-> Len(tasks) - completedCount(tasks),
    completionRate |->
      IF Len(tasks) > 0
        THEN roundTimes100(completedCount(tasks) * 100, Len(tasks)) ELSE 0 ]

\* TaskController: !taskId?.trim()
idRequired(taskId) == taskId = BlankId

\* TaskController.createTask / updateTask: the validation before the try
validationError(data, t) ==
  LET v == validateTask(data, t)
  IN  IF v.threw THEN Some(MsgTypeError)
      ELSE IF ~v.isValid THEN Some(v.errors[1])
      ELSE None

\* the call runs up to its first await, or settles at once
Begin(c, k) ==
  /\ call' = [call EXCEPT ![c] = k]
  /\ UNCHANGED << store, nextId, session, now, origin, deleted, alarmVars >>

\* the caller takes the result; the client is free for the next call
Return(c) ==
  /\ call[c].pc = "done"
  /\ call' = [call EXCEPT ![c] = IdleCall]
  /\ UNCHANGED << store, nextId, session, now, origin, deleted, alarmVars >>

(***************************************************************************)
(* The methods a client calls                                              *)
(***************************************************************************)
\* of n ids, addDoc can still assign one, counting the creations in flight
RoomToCreate(n) ==
  nextId + Cardinality({d \in Clients : call[d].pc = "addDoc"}) < n

SvcGetUserTasks(c) ==
  /\ CanStart(c)
  /\ Begin(c, enterGetUserTasks(NewCall("getUserTasks", "service", UnknownId, << >>),
                             session[c]))

CtlGetAllTasks(c) ==
  /\ CanStart(c)
  /\ Begin(c, enterGetUserTasks(NewCall("getUserTasks", "controller", UnknownId, << >>),
                             session[c]))

\* TaskService.searchTasks: ensureAuthenticated, then getUserTasks
SvcSearchTasks(c, term) ==
  /\ CanStart(c)
  /\ Begin(c, enterGetUserTasks(
                NewCall("searchTasks", "service", UnknownId, [term |-> term]),
                session[c]))

\* TaskController.searchTasks: getAllTasks for a blank term, else getUserTasks
CtlSearchTasks(c, term) ==
  /\ CanStart(c)
  /\ Begin(c, enterGetUserTasks(
                NewCall("searchTasks", "controller", UnknownId, [term |-> term]),
                session[c]))

\* TaskService.getTaskCounts: ensureAuthenticated, then getUserTasks
SvcGetTaskCounts(c) ==
  /\ CanStart(c)
  /\ Begin(c, enterGetUserTasks(
                NewCall("getTaskCounts", "service", UnknownId, << >>), session[c]))

\* TaskController.getTaskStats: getUserTasks of the service
CtlGetTaskStats(c) ==
  /\ CanStart(c)
  /\ Begin(c, enterGetUserTasks(
                NewCall("getTaskStats", "controller", UnknownId, << >>), session[c]))

SvcCreateTask(c, data, n) ==
  /\ CanStart(c)
  /\ RoomToCreate(n)
  /\ Begin(c, enterCreateTask(NewCall("createTask", "service", UnknownId, data),
                              session[c], now))

CtlCreateTask(c, data, n) ==
  /\ CanStart(c)
  /\ RoomToCreate(n)
  /\ LET k == NewCall("createTask", "controller", UnknownId, data)
         e == validationError(data, now)
     IN  Begin(c, IF e # None THEN Finish(k, Err(Val(e)))
                  ELSE enterCreateTask(k, session[c], now))

SvcGetTaskById(c, id) ==
  /\ CanStart(c)
  /\ Begin(c, enterGetTaskById(NewCall("getTaskById", "service", id, << >>),
                               session[c], outerOf("getTaskById")))

CtlGetTaskById(c, id) ==
  /\ CanStart(c)
  /\ LET k == NewCall("getTaskById", "controller", id, << >>)
     IN  Begin(c, IF idRequired(id) THEN Finish(k, Err(MsgIdRequired))
                  ELSE enterGetTaskById(k, session[c], outerOf("getTaskById")))

SvcUpdateTask(c, id, data) ==
  /\ CanStart(c)
  /\ Begin(c, enterCheckedWrite(NewCall("updateTask", "service", id, data), session[c]))

CtlUpdateTask(c, id, data) ==
  /\ CanStart(c)
  /\ LET k == NewCall("updateTask", "controller", id, data)
         e == validationError(data, now)
     IN  Begin(c, IF idRequired(id) THEN Finish(k, Err(MsgIdRequired))
               ELSE IF e # None THEN Finish(k, Err(Val(e)))
               ELSE enterCheckedWrite(k, session[c]))

SvcDeleteTask(c, id) ==
  /\ CanStart(c)
  /\ Begin(c, enterCheckedWrite(NewCall("deleteTask", "service", id, << >>), session[c]))

CtlDeleteTask(c, id) ==
  /\ CanStart(c)
  /\ LET k == NewCall("deleteTask", "controller", id, << >>)
     IN  Begin(c, IF idRequired(id) THEN Finish(k, Err(MsgIdRequired))
               ELSE enterCheckedWrite(k, session[c]))

\* the first await of toggleTaskCompletion is taskService.getTaskById
CtlToggleTaskCompletion(c, id) ==
  /\ CanStart(c)
  /\ LET k == [NewCall("toggleTaskCompletion", "controller", id, << >>)
                 EXCEPT !.stage = 1]
     IN  Begin(c, IF idRequired(id) THEN Finish(k, Err(MsgIdRequired))
                  ELSE enterGetTaskById(k, session[c], outerOf("getTaskById")))

\* updates is a list of [id, data]; an empty list resolves at once
SvcBatchUpdateTasks(c, updates) ==
  /\ CanStart(c)
  /\ LET k == NewCall("batchUpdateTasks", "service", UnknownId, << >>)
     IN  Begin(c, IF session[c] = NoUser THEN Finish(k, Err(MsgUnauthenticated))
               ELSE IF updates = << >> THEN Finish(k, Ok(<< >>))
               ELSE enterCheckedWrite(
                      [k EXCEPT !.taskId = Head(updates).id,
                                !.data = Head(updates).data,
                                !.rest = Tail(updates)], session[c]))

(***************************************************************************)
(* The awaited remote calls resolve                                        *)
(***************************************************************************)
\* getTaskById without the ownership check
getTaskByIdUnchecked(sess, id, snap, outcome, t) ==
  IF outcome # "ok" THEN Err(catchGetTaskById(MsgStoreError))
  ELSE IF snap = None THEN Null
  ELSE Ok(Some(fromFirestore(id, Val(snap), t)))

\* a getTaskById that compares owners only while there is a session
getTaskByIdSignedOut(sess, id, snap, outcome, t) ==
  IF outcome # "ok" THEN Err(catchGetTaskById(MsgStoreError))
  ELSE IF snap = None THEN Null
  ELSE IF sess # NoUser /\ Val(snap).userId # Some(sess)
    THEN Err(catchGetTaskById(MsgForbidden))
  ELSE Ok(Some(fromFirestore(id, Val(snap), t)))

\* TaskService.getTaskById from the resolution of getDoc on: snap is the
\* snapshot, sess the session when the continuation runs
getTaskById(sess, id, snap, outcome, t) ==
  IF outcome # "ok" THEN Err(catchGetTaskById(MsgStoreError))
  ELSE IF snap = None THEN Null
  ELSE IF sess = NoUser THEN Err(catchGetTaskById(MsgTypeError))
  ELSE IF Val(snap).userId # Some(sess) THEN Err(catchGetTaskById(MsgForbidden))
  ELSE IF fromFirestoreThrows(Val(snap)) THEN Err(catchGetTaskById(MsgTypeError))
  ELSE Ok(Some(fromFirestore(id, Val(snap), t)))

\* a caller of getTaskById that does not look whether the task exists
afterGetTaskByIdAbsentToo(k, r, sess) ==
  IF k.op = "getTaskById" THEN Finish(k, r)
  ELSE IF k.op = "toggleTaskCompletion" /\ k.stage = 1 THEN
    IF r.status = "error" THEN Finish(k, r)
    ELSE IF r.status = "null" THEN Finish(k, Err(MsgNotFound))
    ELSE enterCheckedWrite(
           [k EXCEPT !.stage = 2,
                     !.data = [completed |-> Some(~Val(r.val).completed)]], sess)
  ELSE
    IF r.status = "error" THEN Finish(k, Err(catchOf(k.op, r.msg)))
    ELSE IF k.op = "deleteTask" THEN AwaitWrite(k, "deleteDoc", << >>)
    ELSE AwaitWrite(k, "updateDoc", updateToFirestore(k.data))

\* a toggle that writes the value it has read
afterGetTaskByIdSameValue(k, r, sess) ==
  IF k.op = "getTaskById" THEN Finish(k, r)
  ELSE IF k.op = "toggleTaskCompletion" /\ k.stage = 1 THEN
    IF r.status = "error" THEN Finish(k, r)
    ELSE IF r.status = "null" THEN Finish(k, Err(MsgNotFound))
    ELSE enterCheckedWrite(
           [k EXCEPT !.stage = 2,
                     !.data = [completed |-> Some(Val(r.val).completed)]], sess)
  ELSE
    IF r.status = "error" THEN Finish(k, Err(catchOf(k.op, r.msg)))
    ELSE IF r.status = "null" THEN Finish(k, Err(catchOf(k.op, MsgNotFound)))
    ELSE IF k.op = "deleteTask" THEN AwaitWrite(k, "deleteDoc", << >>)
    ELSE AwaitWrite(k, "updateDoc", updateToFirestore(k.data))

\* the caller of getTaskById goes on with its result r
afterGetTaskById(k, r, sess) ==
  IF k.op = "getTaskById" THEN Finish(k, r)
  ELSE IF k.op = "toggleTaskCompletion" /\ k.stage = 1 THEN
    IF r.status = "error" THEN Finish(k, r)
    ELSE IF r.status = "null" THEN Finish(k, Err(MsgNotFound))
    ELSE enterCheckedWrite(
           [k EXCEPT !.stage = 2,
                     !.data = [completed |-> Some(~Val(r.val).completed)]], sess)
  ELSE
    IF r.status = "error" THEN Finish(k, Err(catchOf(k.op, r.msg)))
    ELSE IF r.status = "null" THEN Finish(k, Err(catchOf(k.op, MsgNotFound)))
    ELSE IF k.op = "deleteTask" THEN AwaitWrite(k, "deleteDoc", << >>)
    ELSE AwaitWrite(k, "updateDoc", updateToFirestore(k.data))

\* batchUpdateTasks goes on with the next update of its list
afterUpdateTask(k, sess) ==
  IF k.rest = << >> THEN Finish(k, Ok(<< >>))
  ELSE enterCheckedWrite(
         [k EXCEPT !.taskId = Head(k.rest).id, !.data = Head(k.rest).data,
                   !.rest = Tail(k.rest), !.write = << >>], sess)

SnapshotOf(id) == IF id \in DocIds THEN store[id] ELSE None

Replied(k, outcome) == [k EXCEPT !.reply = outcome]

AwaitGetDoc(c) ==
  /\ call[c].pc = "getDoc"
  /\ \E outcome \in StoreOutcomes :
       LET k == Replied(call[c], outcome)
           r == getTaskById(session[c], k.taskId, SnapshotOf(k.taskId), outcome, now)
       IN  call' = [call EXCEPT ![c] = afterGetTaskById(k, r, session[c])]
  /\ UNCHANGED << store, nextId, session, now, origin, deleted, alarmVars >>

\* addDoc assigns the next id; a failed call stores nothing
AwaitAddDoc(c) ==
  /\ call[c].pc = "addDoc"
  /\ \E outcome \in StoreOutcomes :
       LET k == Replied(call[c], outcome)
           id == nextId + 1
       IN
           IF outcome = "ok"
             THEN /\ store' = [store EXCEPT ![id] = Some(k.write)]
                  /\ nextId' = id
                  /\ origin' = [origin EXCEPT ![id] =
                       Some([userId |-> k.uid, createdAt |-> k.write.createdAt])]
                  /\ call' = [call EXCEPT ![c] = Finish(k, Ok(Some(id)))]
             ELSE /\ call' = [call EXCEPT ![c] = Finish(k,
                       Err(catchByCode(outcome, MsgNoPermCreate, MsgCreateFailed)))]
                  /\ UNCHANGED << store, nextId, origin >>
  /\ UNCHANGED << session, now, deleted, alarmVars >>

\* a write that creates the document when it does not exist
AwaitUpdateDocCreating(c) ==
  /\ call[c].pc = "updateDoc"
  /\ \E outcome \in StoreOutcomes :
       LET k == Replied(call[c], outcome)
       IN
           IF outcome = "ok" /\ k.taskId \in DocIds
             THEN /\ store' = [store EXCEPT ![k.taskId] =
                                 Some(IF store[k.taskId] # None
                                        THEN merge(Val(store[k.taskId]), k.write)
                                        ELSE k.write)]
                  /\ call' = [call EXCEPT ![c] =
                       IF k.op = "batchUpdateTasks" THEN afterUpdateTask(k, session[c])
                       ELSE Finish(k, Ok(<< >>))]
             ELSE /\ call' = [call EXCEPT ![c] =
                       Finish(k, Err(catchOf(k.op, MsgStoreError)))]
                  /\ UNCHANGED store
  /\ UNCHANGED << nextId, session, now, origin, deleted, alarmVars >>

\* updateDoc fails on a document that does not exist
AwaitUpdateDoc(c) ==
  /\ call[c].pc = "updateDoc"
  /\ \E outcome \in StoreOutcomes :
       LET k == Replied(call[c],
                  IF outcome = "ok" /\ SnapshotOf(call[c].taskId) = None
                    THEN "not-found" ELSE outcome)
       IN
           IF outcome = "ok" /\ SnapshotOf(k.taskId) # None
             THEN /\ store' = [store EXCEPT ![k.taskId] =
                                 Some(merge(Val(store[k.taskId]), k.write))]
                  /\ call' = [call EXCEPT ![c] =
                       IF k.op = "batchUpdateTasks" THEN afterUpdateTask(k, session[c])
                       ELSE Finish(k, Ok(<< >>))]
             ELSE /\ call' = [call EXCEPT ![c] =
                       Finish(k, Err(catchOf(k.op, MsgStoreError)))]
                  /\ UNCHANGED store
  /\ UNCHANGED << nextId, session, now, origin, deleted, alarmVars >>

\* a deleteDoc that removes the id from another collection
AwaitDeleteDocElsewhere(c) ==
  /\ call[c].pc = "deleteDoc"
  /\ \E outcome \in StoreOutcomes :
       LET k == Replied(call[c], outcome)
       IN
           IF outcome = "ok"
             THEN /\ deleted' = deleted \cup {k.taskId}
                  /\ call' = [call EXCEPT ![c] = Finish(k, Ok(<< >>))]
             ELSE /\ call' = [call EXCEPT ![c] =
                       Finish(k, Err(catchDeleteTask(MsgStoreError)))]
                  /\ UNCHANGED deleted
  /\ UNCHANGED << store, nextId, session, now, origin, alarmVars >>

\* deleteDoc succeeds whether or not the document exists
AwaitDeleteDoc(c) ==
  /\ call[c].pc = "deleteDoc"
  /\ \E outcome \in StoreOutcomes :
       LET k == Replied(call[c], outcome)
       IN
           IF outcome = "ok"
             THEN /\ store' = [store EXCEPT ![k.taskId] = None]
                  /\ deleted' = deleted \cup {k.taskId}
                  /\ call' = [call EXCEPT ![c] = Finish(k, Ok(<< >>))]
             ELSE /\ call' = [call EXCEPT ![c] =
                       Finish(k, Err(catchDeleteTask(MsgStoreError)))]
                  /\ UNCHANGED << store, deleted >>
  /\ UNCHANGED << nextId, session, now, origin, alarmVars >>

\* the caller of getUserTasks goes on with its result r
afterGetUserTasks(k, r) ==
  CASE k.op = "getUserTasks" -> r
    [] k.op = "searchTasks" ->
         IF r.status = "error"
           THEN IF k.via = "service" THEN Err(MsgSearchFailed) ELSE r
           ELSE Ok(searchTasks(r.val, k.data.term))
    [] k.op = "getTaskCounts" ->
         IF r.status = "error" THEN Err(MsgCountsFailed)
         ELSE Ok(getTaskCounts(r.val))
    [] k.op = "getTaskStats" ->
         IF r.status = "error" THEN r ELSE Ok(getTaskStats(r.val))

AwaitGetDocs(c) ==
  /\ call[c].pc = "getDocs"
  /\ \E outcome \in StoreOutcomes :
       LET k == Replied(call[c], outcome)
           S == queryIds(k.uid)
       IN
           IF outcome = "ok"
             THEN \E s \in [1..Cardinality(S) -> S] :
                    /\ IsDescending(s, S)
                    /\ call' = [call EXCEPT ![c] = Finish(k,
                         afterGetUserTasks(k,
                           IF \E i \in S : fromFirestoreThrows(Val(store[i]))
                             THEN Err(MsgListFailed)
                             ELSE Ok([i \in 1..Len(s) |->
                                        fromFirestore(s[i], Val(store[s[i]]), now)])))]
             ELSE call' = [call EXCEPT ![c] = Finish(k,
                       afterGetUserTasks(k,
                         Err(catchByCode(outcome, MsgNoPermList, MsgListFailed))))]
  /\ UNCHANGED << store, nextId, session, now, origin, deleted, alarmVars >>

(***************************************************************************)
(* Inputs                                                                  *)
(***************************************************************************)
TitleA == << "a" >>

TitleB == << "b" >>

TitleBlank == << " " >>

\* a title that is both blank and too long
TitleLongBlank == Rep(" ", MAX_TITLE_LENGTH + 1)

TitleMax == Rep("a", MAX_TITLE_LENGTH)

DescD == << "d" >>

DescLong == Rep("d", MAX_DESCRIPTION_LENGTH + 1)

NewPlain == [titulo |-> Some(TitleA), completed |-> Some(FALSE)]

\* a payload that carries owner and creation time of its own
NewSpoofed ==
  [titulo |-> Some(TitleB), completed |-> Some(FALSE),
   userId |-> Some("uA"), createdAt |-> Some(TimestampFromDate(MaxClock))]

\* payloads that break the rules of the validator
NewEmpty == [titulo |-> Some(Str0), completed |-> Some(FALSE)]

NewBlank == [titulo |-> Some(TitleBlank), completed |-> Some(FALSE)]

NewMany ==
  [titulo |-> Some(TitleLongBlank), descripcion |-> Some(DescLong),
   completed |-> Some(FALSE), fecha |-> Some(0 - 1)]

SetEmptyTitle == [titulo |-> Some(Str0)]

SetMany == [titulo |-> Some(TitleLongBlank), descripcion |-> Some(DescLong)]

\* the key is there, its value is undefined
SetUndefinedTitle == [titulo |-> None]

\* a task with every field, and updates of one field or two
NewFull ==
  [titulo |-> Some(TitleA), descripcion |-> Some(DescD),
   completed |-> Some(TRUE), fecha |-> Some(0)]

\* a task whose description is the empty string, due the day before
NewEmptyDesc ==
  [titulo |-> Some(TitleB), descripcion |-> Some(Str0),
   completed |-> Some(TRUE), fecha |-> Some(0 - 1)]

\* a title in two cases
NewMixedCase == [titulo |-> Some(<< "b", "A" >>), completed |-> Some(FALSE)]

\* search terms: none, empty, blank, in either case, padded, of a description
SearchTerms ==
  {None, Some(Str0), Some(<< " " >>), Some(<< "a" >>), Some(<< "B" >>),
   Some(<< " ", "a", " " >>), Some(<< "d" >>), Some(<< "a", "b" >>)}

SetDescription == [descripcion |-> Some(<< "e" >>)]

SetNotCompleted == [completed |-> Some(FALSE)]

SetDate == [fecha |-> Some(MaxClock)]

SetTitleAndDate == [titulo |-> Some(TitleMax), fecha |-> Some(MaxClock)]

SetNothing == << >>

SetCompleted == [completed |-> Some(TRUE)]

SetTitle == [titulo |-> Some(TitleB)]

SetSpoofed ==
  [completed |-> Some(FALSE), userId |-> Some("uA"),
   createdAt |-> Some(TimestampFromDate(MaxClock))]

(***************************************************************************)
(* The next-state relation: the clients CS create at most N tasks and call  *)
(* the methods with creation payloads CP, update payloads UP, ids IDS and  *)
(* batches BS                                                              *)
(***************************************************************************)
Step(CS, N, CP, UP, IDS, BS) ==
  \/ \E c \in CS, u \in Users : Login(c, u)
  \/ \E c \in CS : Logout(c)
  \/ Tick
  \/ \E c \in CS : SvcGetUserTasks(c)
  \/ \E c \in CS : CtlGetAllTasks(c)
  \/ \E c \in CS, data \in CP : SvcCreateTask(c, data, N)
  \/ \E c \in CS, data \in CP : CtlCreateTask(c, data, N)
  \/ \E c \in CS, id \in IDS : SvcGetTaskById(c, id)
  \/ \E c \in CS, id \in IDS : CtlGetTaskById(c, id)
  \/ \E c \in CS, id \in IDS, data \in UP : SvcUpdateTask(c, id, data)
  \/ \E c \in CS, id \in IDS, data \in UP : CtlUpdateTask(c, id, data)
  \/ \E c \in CS, id \in IDS : SvcDeleteTask(c, id)
  \/ \E c \in CS, id \in IDS : CtlDeleteTask(c, id)
  \/ \E c \in CS, id \in IDS : CtlToggleTaskCompletion(c, id)
  \/ \E c \in CS, updates \in BS : SvcBatchUpdateTasks(c, updates)
  \/ \E c \in CS : Return(c)
  \/ \E c \in CS : AwaitGetDoc(c)
  \/ \E c \in CS : AwaitAddDoc(c)
  \/ \E c \in CS : AwaitUpdateDoc(c)
  \/ \E c \in CS : AwaitDeleteDoc(c)
  \/ \E c \in CS : AwaitGetDocs(c)

\* lists of at most MaxBatch updates of the ids IDS with the payloads UP
Batches(IDS, UP) ==
  UNION {[1..n -> [id : IDS, data : UP]] : n \in 0..MaxBatch}

\* the ids a client passes: those of the tasks, an unknown one, the empty one
IdInputs == (1..MaxTasks) \cup {UnknownId, BlankId}

Next ==
  Step({"c1"}, MaxTasks, {NewPlain, NewSpoofed},
       {SetCompleted, SetTitle, SetSpoofed},
       IdInputs, Batches(1..MaxTasks, {SetCompleted}))

Spec == Init /\ [][Next]_vars

\* one task, an unknown id and the empty id
OneTaskIds == {1, UnknownId, BlankId}

\* one task; payloads that break the rules of the validator among valid ones
NextValidation ==
  Step({"c1"}, 1, {NewPlain, NewEmpty, NewBlank, NewMany},
       {SetTitle, SetEmptyTitle, SetMany, SetUndefinedTitle},
       OneTaskIds, Batches({1}, {SetEmptyTitle}))

SpecValidation == Init /\ [][NextValidation]_vars

\* one task that has every field; updates of each of them
NextFrame ==
  Step({"c1"}, 1, {NewFull},
       {SetTitle, SetDescription, SetNotCompleted, SetDate, SetTitleAndDate,
        SetNothing, SetSpoofed},
       OneTaskIds, Batches({1}, {SetTitle, SetDate}))

SpecFrame == Init /\ [][NextFrame]_vars

(***************************************************************************)
(* TaskValidator on its own: the payload and the clock are drawn at the    *)
(* start, validateTask is applied to them                                  *)
(***************************************************************************)
\* the payloads: each key is lacking (<< >>) or there with a value v
\* (<< v >>), which may be undefined
ValidatorInputs ==
  LET titles ==
        {<< >>, << None >>, << Some(Str0) >>, << Some(TitleBlank) >>,
         << Some(TitleA) >>, << Some(TitleMax) >>,
         << Some(Rep("a", MAX_TITLE_LENGTH + 1)) >>, << Some(TitleLongBlank) >>}
      descriptions ==
        {<< >>, << None >>, << Some(Str0) >>, << Some(DescD) >>,
         << Some(Rep("d", MAX_DESCRIPTION_LENGTH)) >>, << Some(DescLong) >>}
      dates ==
        {<< >>, << None >>} \cup {<< Some(d) >> : d \in (0 - TicksPerDay)..MaxClock}
      Payload(t, d, f) ==
        LET ch == [titulo |-> t, descripcion |-> d, fecha |-> f]
        IN  [k \in {j \in DOMAIN ch : ch[j] # << >>} |-> ch[k][1]]
  IN  {Payload(t, d, f) : t \in titles, d \in descriptions, f \in dates}

InitValidator ==
  /\ store = [i \in DocIds |-> None]
  /\ nextId = 0
  /\ session = [c \in Clients |-> NoUser]
  /\ now \in 0..MaxClock
  /\ \E data \in ValidatorInputs :
       call = [c \in Clients |->
                 IF c = "c1"
                   THEN NewCall("validateTask", "validator", UnknownId, data)
                   ELSE IdleCall]
  /\ origin = [i \in DocIds |-> None]
  /\ deleted = {}
  /\ InitAlarmService

\* TaskValidator.validateTask returns its result or throws
ValidateTask(c) ==
  /\ CanStart(c) /\ call[c].op = "validateTask"
  /\ LET v == validateTask(call[c].data, now)
     IN  Begin(c, Finish(call[c], IF v.threw THEN Err(MsgTypeError)
                                  ELSE Ok([isValid |-> v.isValid,
                                           errors |-> v.errors])))

NextValidator == ValidateTask("c1")

SpecValidator == InitValidator /\ [][NextValidator]_vars

(***************************************************************************)
(* TaskMapper on its own: a task and its owner, or a record of the store,  *)
(* are drawn at the start; toFirestore and fromFirestore are applied       *)
(***************************************************************************)
\* the tasks: titles up to and over the limit, descriptions lacking, empty
\* or not, due dates lacking or around the start of the clock
MapperTasks ==
  LET titles == {Str0, TitleA, TitleMax, Rep("a", MAX_TITLE_LENGTH + 1)}
      descriptions == {<< >>, << Some(Str0) >>, << Some(DescD) >>}
      dates == {<< >>} \cup {<< Some(d) >> : d \in (0 - 1)..MaxClock}
      Made(t, d, b, f) ==
        LET ch == [titulo |-> << Some(t) >>, descripcion |-> d,
                   completed |-> << Some(b) >>, fecha |-> f]
        IN  [k \in {j \in DOMAIN ch : ch[j] # << >>} |-> ch[k][1]]
  IN  {Made(t, d, b, f) : t \in titles, d \in descriptions, b \in BOOLEAN,
                          f \in dates}

\* the records: each field lacking or there; a due date that is there is a
\* Timestamp or a date kept as text
MapperRecords ==
  [ titulo : {None, Some(TitleA)}, Descripcion : {None, Some(DescD)},
    completed : {None, Some(TRUE)},
    Fecha : {None, Some(TimestampFromDate(0)), Some([text |-> "2024-01-01"])},
    userId : {None, Some("uA")}, createdAt : {None, Some(TimestampFromDate(0))} ]

InitMapper ==
  /\ store = [i \in DocIds |-> None]
  /\ nextId = 0
  /\ session = [c \in Clients |-> NoUser]
  /\ now \in 0..MaxClock
  /\ \E k \in {[NewCall("toFirestore", "mapper", 1, task) EXCEPT !.uid = u] :
                   task \in MapperTasks, u \in Users}
               \cup {[NewCall("fromFirestore", "mapper", 1, << >>)
                        EXCEPT !.write = record] : record \in MapperRecords} :
       call = [c \in Clients |-> IF c = "c1" THEN k ELSE IdleCall]
  /\ origin = [i \in DocIds |-> None]
  /\ deleted = {}
  /\ InitAlarmService

\* TaskMapper.toFirestore(task, userId) returns the record
MapToFirestore(c) ==
  /\ CanStart(c) /\ call[c].op = "toFirestore"
  /\ Begin(c, [call[c] EXCEPT !.pc = "mapped",
                              !.write = toFirestore(call[c].data, call[c].uid, now)])

\* TaskMapper.fromFirestore(id, data) returns the task or throws; data is
\* the record drawn or the one toFirestore returned
MapFromFirestore(c) ==
  /\ \/ call[c].op = "fromFirestore" /\ CanStart(c)
     \/ call[c].op = "toFirestore" /\ call[c].pc = "mapped"
  /\ Begin(c, [call[c] EXCEPT
                 !.pc = "done",
                 !.res = IF fromFirestoreThrows(call[c].write)
                           THEN Err(MsgTypeError)
                           ELSE Ok(Some(fromFirestore(call[c].taskId,
                                                      call[c].write, now)))])

NextMapper == MapToFirestore("c1") \/ MapFromFirestore("c1")

SpecMapper == InitMapper /\ [][NextMapper]_vars

\* two callers of one user or two: tasks are created and read, never changed
NextRoundTrip ==
  \/ \E c \in Clients, u \in Users : Login(c, u)
  \/ \E c \in Clients : Logout(c)
  \/ Tick
  \/ \E c \in Clients, data \in {NewPlain, NewFull, NewEmptyDesc} :
       SvcCreateTask(c, data, 1)
  \/ \E c \in Clients, data \in {NewPlain, NewFull, NewEmptyDesc} :
       CtlCreateTask(c, data, 1)
  \/ \E c \in Clients, id \in OneTaskIds : SvcGetTaskById(c, id)
  \/ \E c \in Clients, id \in OneTaskIds : CtlGetTaskById(c, id)
  \/ \E c \in Clients : Return(c)
  \/ \E c \in Clients : AwaitGetDoc(c)
  \/ \E c \in Clients : AwaitAddDoc(c)

SpecRoundTrip == Init /\ [][NextRoundTrip]_vars

\* the tasks of the lists: as many as the store holds
ListPayloads == {NewPlain, NewFull}

\* two users in turn create tasks, list their own and delete them
NextList ==
  \/ \E u \in Users : Login("c1", u)
  \/ Logout("c1")
  \/ Tick
  \/ \E data \in ListPayloads : SvcCreateTask("c1", data, MaxListed)
  \/ SvcGetUserTasks("c1")
  \/ CtlGetAllTasks("c1")
  \/ \E id \in 1..MaxListed : SvcDeleteTask("c1", id)
  \/ Return("c1")
  \/ AwaitAddDoc("c1")
  \/ AwaitGetDoc("c1")
  \/ AwaitDeleteDoc("c1")
  \/ AwaitGetDocs("c1")

SpecList == Init /\ [][NextList]_vars

\* the caller takes the id createTask resolved to
ReturnCreated(c) == call[c].op = "createTask" /\ Return(c)

\* two callers of one user: a task is created, then each of them updates it
\* once, the two updates overlapping in every way
NextRace ==
  \/ \E c \in Clients : Login(c, "uA")
  \/ \E c \in Clients : SvcCreateTask(c, NewFull, 1)
  \/ \E c \in Clients : ReturnCreated(c)
  \/ \E c \in Clients, data \in {SetTitle, SetDescription, SetTitleAndDate} :
       SvcUpdateTask(c, 1, data)
  \/ \E c \in Clients : AwaitAddDoc(c)
  \/ \E c \in Clients : AwaitGetDoc(c)
  \/ \E c \in Clients : AwaitUpdateDoc(c)

SpecRace == Init /\ [][NextRace]_vars

\* one user creates tasks and searches them
NextSearch ==
  \/ Login("c1", "uA")
  \/ Logout("c1")
  \/ Tick
  \/ \E data \in {NewFull, NewEmptyDesc, NewMixedCase} :
       SvcCreateTask("c1", data, MaxListed)
  \/ \E term \in SearchTerms : SvcSearchTasks("c1", term)
  \/ \E term \in SearchTerms : CtlSearchTasks("c1", term)
  \/ Return("c1")
  \/ AwaitAddDoc("c1")
  \/ AwaitGetDocs("c1")

SpecSearch == Init /\ [][NextSearch]_vars

\* one user creates tasks, completed or not, and asks for the statistics
NextStats ==
  \/ Login("c1", "uA")
  \/ Logout("c1")
  \/ \E data \in {NewPlain, NewFull} : CtlCreateTask("c1", data, MaxCounted)
  \/ SvcGetTaskCounts("c1")
  \/ CtlGetTaskStats("c1")
  \/ Return("c1")
  \/ AwaitAddDoc("c1")
  \/ AwaitGetDocs("c1")

SpecStats == Init /\ [][NextStats]_vars

(***************************************************************************)
(* Properties                                                              *)
(***************************************************************************)
\* the step in which getDoc resolves for the method op of client c
GetDocResolves(c, op) ==
  call[c].pc = "getDoc" /\ call[c].op = op /\ call'[c].pc # "getDoc"

\* the record id resolves to belongs to somebody else than the session of c
Foreign(c, id) ==
  /\ SnapshotOf(id) # None
  /\ session[c] \in Users
  /\ Val(SnapshotOf(id)).userId # Some(session[c])

\* C1: getTaskById, of the service or the controller, in a session of user B
\* on a stored task of user A fails with the permission error whenever the
\* store answers, returns no task data, and whatever task it returns is
\* owned by the session that receives it.
C1_ForeignGetForbidden ==
  [][\A c \in Clients :
       GetDocResolves(c, "getTaskById") =>
         /\ Foreign(c, call[c].taskId) =>
              /\ call'[c].res.status = "error"
              /\ call'[c].res.val = << >>
              /\ call'[c].reply = "ok" => call'[c].res.msg = MsgForbidden
         /\ call'[c].res.status = "ok" =>
              /\ session[c] \in Users
              /\ Val(call'[c].res.val).userId = session[c]
              /\ Val(SnapshotOf(call[c].taskId)).userId = Some(session[c])]_vars

\* a session of one user has been refused the task of another
C1_Witness ==
  \E c \in Clients :
    /\ call[c].pc = "done" /\ call[c].op = "getTaskById"
    /\ call[c].res = Err(MsgForbidden) /\ call[c].reply = "ok"
    /\ Foreign(c, call[c].taskId)

\* C2: every stored task has the owner and the creation time it was given
\* when it was created, the owner being the session that created it, under
\* its id of then: no payload of a create, update, toggle or delete sets them.
C2_OwnerAndCreationFixed ==
  \A id \in DocIds :
    store[id] # None =>
      /\ origin[id] # None
      /\ Val(store[id]).userId = Some(Val(origin[id]).userId)
      /\ Val(store[id]).createdAt = Val(origin[id]).createdAt

\* an update whose payload names another owner has been applied to a task
C2_Witness ==
  \E c \in Clients :
    /\ call[c].pc = "done" /\ call[c].op = "updateTask"
    /\ call[c].res.status = "ok"
    /\ "userId" \in DOMAIN call[c].data
    /\ store[call[c].taskId] # None
    /\ Val(store[call[c].taskId]).userId # call[c].data.userId

\* the step in which client c calls the method op
Calls(c, op) == call[c].pc = "idle" /\ call'[c].op = op

\* C7: createTask without a session user fails with the unauthenticated
\* error (the controller, which validates first, for data that passes its
\* validation), issues no remote call and writes no record.
C7_CreateUnauthenticated ==
  [][\A c \in Clients :
       Calls(c, "createTask") /\ session[c] = NoUser =>
         /\ call'[c].pc = "done"
         /\ call'[c].res.status = "error"
         /\ (call'[c].via = "service" \/ validateTask(call'[c].data, now).isValid)
              => call'[c].res = Err(MsgUnauthenticated)
         /\ call'[c].remotes = 0 /\ call'[c].writes = 0
         /\ store' = store /\ nextId' = nextId]_vars

\* a create has been refused for want of a session
C7_Witness ==
  \E c \in Clients :
    /\ call[c].pc = "done" /\ call[c].op = "createTask"
    /\ call[c].res = Err(MsgUnauthenticated)
    /\ call[c].writes = 0 /\ session[c] = NoUser

\* C5: updateTask fails with the not-found error when the id resolves to no
\* record and with the permission error when the record is another user's;
\* either way the call has issued no write and the store is as it was.
C5_UpdateRefused ==
  [][\A c \in Clients :
       GetDocResolves(c, "updateTask") /\ call'[c].reply = "ok" =>
         /\ SnapshotOf(call[c].taskId) = None =>
              call'[c].pc = "done" /\ call'[c].res = Err(MsgNotFound)
         /\ Foreign(c, call[c].taskId) =>
              call'[c].pc = "done" /\ call'[c].res = Err(MsgForbidden)
         /\ call'[c].pc = "done" =>
              call'[c].writes = 0 /\ store' = store]_vars

\* an update of another user's task has been refused
C5_Witness ==
  \E c \in Clients :
    /\ call[c].pc = "done" /\ call[c].op = "updateTask"
    /\ call[c].res = Err(MsgForbidden) /\ call[c].writes = 0
    /\ Foreign(c, call[c].taskId)

\* C6: deleteTask of an id that resolves to no record, as after a delete
\* that succeeded, or to another user's record fails with the not-found or
\* the permission error, issues no write and leaves the store as it was.
C6_DeleteRefused ==
  [][\A c \in Clients :
       GetDocResolves(c, "deleteTask") /\ call'[c].reply = "ok" =>
         /\ call[c].taskId \in deleted => SnapshotOf(call[c].taskId) = None
         /\ SnapshotOf(call[c].taskId) = None =>
              call'[c].pc = "done" /\ call'[c].res = Err(MsgNotFound)
         /\ Foreign(c, call[c].taskId) =>
              call'[c].pc = "done" /\ call'[c].res = Err(MsgForbidden)
         /\ call'[c].pc = "done" =>
              call'[c].writes = 0 /\ store' = store]_vars

\* a second delete of an id has failed after the first succeeded
C6_Witness ==
  \E c \in Clients :
    /\ call[c].pc = "done" /\ call[c].op = "deleteTask"
    /\ call[c].res = Err(MsgNotFound) /\ call[c].writes = 0
    /\ call[c].taskId \in deleted

\* C10: once a delete of an id has succeeded the id stays absent from the
\* store; from then on getTaskById of it resolves to null whenever the store
\* answers, and no list of getUserTasks holds it.
C10_DeletedStaysGone ==
  [][/\ \A id \in deleted' : store'[id] = None
     /\ \A c \in Clients :
          /\ ( /\ GetDocResolves(c, "getTaskById")
               /\ call[c].taskId \in deleted
               /\ call'[c].reply = "ok" ) => call'[c].res = Null
          /\ ( /\ call[c].pc = "getDocs" /\ call'[c].res.status = "ok" ) =>
               \A i \in 1..Len(call'[c].res.val) :
                 call'[c].res.val[i].id \notin deleted]_vars

\* getTaskById of a deleted id has resolved to null
C10_Witness ==
  \E c \in Clients :
    /\ call[c].pc = "done" /\ call[c].op = "getTaskById"
    /\ call[c].res = Null /\ call[c].taskId \in deleted

\* C3: every persisted revision of every task has a title that is not
\* empty and has at most 100 characters.
C3_StoredTitleValid ==
  \A id \in DocIds :
    store[id] # None =>
      /\ Val(store[id]).titulo # None
      /\ Len(Val(Val(store[id]).titulo)) >= 1
      /\ Len(Val(Val(store[id]).titulo)) <= MAX_TITLE_LENGTH

\* the field of the record each key of an update is stored in
FieldOf ==
  [titulo |-> "titulo", descripcion |-> "Descripcion",
   completed |-> "completed", fecha |-> "Fecha"]

\* the step in which the updateDoc of updateTask of client c succeeds
UpdateApplied(c) ==
  /\ call[c].pc = "updateDoc" /\ call[c].op = "updateTask"
  /\ call'[c].pc = "done" /\ call'[c].res.status = "ok"

\* C4: an update of an owned task writes the fields its payload supplies and
\* no other: every field the payload omits, and owner and creation time
\* whatever the payload says, are stored after the update as before it.
C4_UpdateWritesOnlySupplied ==
  [][\A c \in Clients :
       UpdateApplied(c) =>
         LET id == call[c].taskId
             data == call[c].data
             supplied == {FieldOf[k] : k \in DOMAIN data \cap DOMAIN FieldOf}
             before == Val(store[id])
             after == Val(store'[id])
         IN  /\ store'[id] # None
             /\ DOMAIN after = DOMAIN before
             /\ \A f \in DOMAIN before \ supplied : after[f] = before[f]
             /\ \A j \in DocIds \ {id} : store'[j] = store[j]
             /\ Get(data, "titulo") # None => after.titulo = data.titulo
             /\ Get(data, "descripcion") # None =>
                  after.Descripcion = data.descripcion
             /\ Get(data, "completed") # None => after.completed = data.completed
             /\ Get(data, "fecha") # None =>
                  TimestampToDate(Val(after.Fecha)) = Val(data.fecha)]_vars

\* an update of the title alone has left a task that has every field
C4_Witness ==
  \E c \in Clients :
    /\ call[c].pc = "done" /\ call[c].op = "updateTask"
    /\ call[c].res.status = "ok" /\ call[c].data = SetTitle
    /\ store[call[c].taskId] # None
    /\ LET d == Val(store[call[c].taskId])
       IN  /\ d.titulo = Some(TitleB) /\ d.Descripcion = Some(DescD)
           /\ d.completed = Some(TRUE) /\ d.Fecha # None

\* a title of spaces only, or none
BlankTitle(data) ==
  \/ Get(data, "titulo") = None
  \/ \A i \in 1..Len(Val(data.titulo)) : Val(data.titulo)[i] = " "

\* data breaks a rule: title required, title length, description length,
\* date not before the day of t
BreaksARule(data, t) ==
  \/ "titulo" \in DOMAIN data /\ BlankTitle(data)
  \/ /\ Get(data, "titulo") # None
     /\ Len(Val(data.titulo)) > MAX_TITLE_LENGTH
  \/ /\ Get(data, "descripcion") # None
     /\ Len(Val(data.descripcion)) > MAX_DESCRIPTION_LENGTH
  \/ /\ Get(data, "fecha") # None
     /\ \E d \in 0..(TicksPerDay - 1) : (t - d) % TicksPerDay = 0 /\ Val(data.fecha) < t - d

Carried(res) == IF res.status = "error" THEN {res.msg} ELSE {}

\* C9: when the data of a create or update of the controller breaks several
\* rules, the failure carries the message of every rule broken.
C9_AllViolationsCarried ==
  [][\A c \in Clients :
       ( /\ Calls(c, "createTask") \/ Calls(c, "updateTask")
         /\ call'[c].via = "controller"
         /\ ~idRequired(call'[c].taskId)
         /\ ~validateTask(call'[c].data, now).threw ) =>
         \A i \in 1..Len(validateTask(call'[c].data, now).errors) :
           validateTask(call'[c].data, now).errors[i] \in Carried(call'[c].res)]_vars

\* the step in which getTaskById of client d resolves to the task that the
\* createTask of client c, which holds its result, returned the id of
GetsCreated(c, d) ==
  /\ call[c].pc = "done" /\ call[c].op = "createTask"
  /\ call[c].res.status = "ok"
  /\ GetDocResolves(d, "getTaskById")
  /\ call[d].taskId = Val(call[c].res.val)
  /\ call'[d].res.status = "ok"

\* the fields the system assigns: the id, the owner, the creation time
SystemAssigned(task, id) ==
  /\ task.id = id
  /\ origin[id] # None
  /\ task.userId = Val(origin[id]).userId
  /\ Some(TimestampFromDate(task.createdAt)) = Val(origin[id]).createdAt

\* C11 as stated: createTask followed by getTaskById of the returned id
\* yields a task whose title, description, completed and due date equal the
\* input of createTask; id, owner and creation time are the system's.
C11_CreateThenGetEqual ==
  [][\A c, d \in Clients :
       GetsCreated(c, d) =>
         LET task == Val(call'[d].res.val)
             data == call[c].data
         IN  /\ task.titulo = Val(data.titulo)
             /\ task.descripcion = Get(data, "descripcion")
             /\ task.completed = Val(data.completed)
             /\ task.fecha = Get(data, "fecha")
             /\ SystemAssigned(task, call[d].taskId)]_vars

\* C11 amended: createTask followed by getTaskById of the returned id yields
\* a task whose title, completed and due date equal the input and whose
\* description equals the input's, an empty description being read back as
\* none (undefined); id, owner and creation time are the system's.
C11_CreateThenGet ==
  [][\A c, d \in Clients :
       GetsCreated(c, d) =>
         LET task == Val(call'[d].res.val)
             data == call[c].data
         IN  /\ task.titulo = Val(data.titulo)
             /\ Get(data, "descripcion") # Some(Str0) =>
                  task.descripcion = Get(data, "descripcion")
             /\ Get(data, "descripcion") = Some(Str0) => task.descripcion = None
             /\ task.completed = Val(data.completed)
             /\ task.fecha = Get(data, "fecha")
             /\ SystemAssigned(task, call[d].taskId)]_vars

\* a task with a description and a due date has been created and read back
\* by the caller next to the one that holds the id
C11_Witness ==
  \E c, d \in Clients :
    /\ call[c].pc = "done" /\ call[c].op = "createTask"
    /\ call[c].res.status = "ok" /\ call[c].data = NewFull
    /\ call[d].pc = "done" /\ call[d].op = "getTaskById"
    /\ call[d].taskId = Val(call[c].res.val)
    /\ call[d].res.status = "ok"
    /\ Val(call[d].res.val).descripcion = Some(DescD)
    /\ Val(call[d].res.val).fecha = Some(0)

\* the step in which the getDocs that the method op of client c awaits is
\* answered by the store
GetDocsAnswered(c, op) ==
  /\ call[c].pc = "getDocs" /\ call[c].op = op
  /\ call'[c].pc = "done" /\ call'[c].reply = "ok"

\* the ids of the stored tasks of user uid
OwnedIds(uid) ==
  {i \in DocIds : store[i] # None /\ Val(store[i]).userId = Some(uid)}

\* list holds the tasks of the ids S, each once, as they are stored
ListsExactly(list, S) ==
  /\ Len(list) = Cardinality(S)
  /\ {list[i].id : i \in 1..Len(list)} = S
  /\ \A i \in 1..Len(list) :
       list[i] = fromFirestore(list[i].id, Val(store[list[i].id]), now)

\* list is ordered by creation time, newest first
NewestFirst(list) ==
  \A i, j \in 1..Len(list) : i < j => list[i].createdAt >= list[j].createdAt

\* C12: getUserTasks and getAllTasks, when the store answers, resolve to
\* exactly the stored tasks whose owner is the session user of the call,
\* none of anyone else, newest first by creation time; to the empty list,
\* not an error, when that user owns no task.
C12_ListOwnedNewestFirst ==
  [][\A c \in Clients :
       GetDocsAnswered(c, "getUserTasks") =>
         /\ call'[c].res.status = "ok"
         /\ ListsExactly(call'[c].res.val, OwnedIds(call[c].uid))
         /\ \A i \in 1..Len(call'[c].res.val) :
              call'[c].res.val[i].userId = call[c].uid
         /\ NewestFirst(call'[c].res.val)
         /\ OwnedIds(call[c].uid) = {} => call'[c].res = Ok(<< >>)]_vars

\* a user has listed one task, their own, while the store holds one of
\* another user too
C12_Witness ==
  \E c \in Clients :
    /\ call[c].pc = "done" /\ call[c].op = "getUserTasks"
    /\ call[c].res.status = "ok" /\ Len(call[c].res.val) = 1
    /\ session[c] \in Users
    /\ call[c].res.val[1].userId = session[c]
    /\ \E i \in DocIds : store[i] # None /\ Val(store[i]).userId # Some(session[c])

\* s contains part as a substring when case is disregarded
ContainsNoCase(s, part) ==
  \E i \in 0..(Len(s) - Len(part)) :
    \A j \in 1..Len(part) : toLowerCase(<< s[i + j] >>) = toLowerCase(<< part[j] >>)

\* the title or the description of the stored task id contains part
TaskContains(id, part) ==
  LET d == Val(store[id])
  IN  \/ d.titulo # None /\ ContainsNoCase(Val(d.titulo), part)
      \/ d.Descripcion # None /\ ContainsNoCase(Val(d.Descripcion), part)

\* a term that is none, empty or of spaces only
BlankTerm(term) == term = None \/ \A i \in 1..Len(Val(term)) : Val(term)[i] = " "

\* C13 as stated: searchTasks resolves to exactly the owned tasks whose
\* title or description contains the term, case disregarded, in the order
\* of the list; to the whole list for an empty or blank term.
C13_SearchContainsTerm ==
  [][\A c \in Clients :
       GetDocsAnswered(c, "searchTasks") =>
         LET term == call[c].data.term
             owned == OwnedIds(call[c].uid)
         IN  /\ call'[c].res.status = "ok"
             /\ NewestFirst(call'[c].res.val)
             /\ BlankTerm(term) => ListsExactly(call'[c].res.val, owned)
             /\ ~BlankTerm(term) =>
                  ListsExactly(call'[c].res.val,
                               {i \in owned : TaskContains(i, Val(term))})]_vars

\* C13 amended: searchTasks resolves to exactly the owned tasks whose title
\* or description contains the term without its leading and trailing
\* spaces, case disregarded, in the order of the list; to the whole list for
\* an empty or blank term.
C13_SearchContainsTrimmedTerm ==
  [][\A c \in Clients :
       GetDocsAnswered(c, "searchTasks") =>
         LET term == call[c].data.term
             owned == OwnedIds(call[c].uid)
         IN  /\ call'[c].res.status = "ok"
             /\ NewestFirst(call'[c].res.val)
             /\ BlankTerm(term) => ListsExactly(call'[c].res.val, owned)
             /\ ~BlankTerm(term) =>
                  ListsExactly(call'[c].res.val,
                               {i \in owned : TaskContains(i, trim(Val(term)))})]_vars

\* a search in capitals has found one task of two, by its title in small
\* letters
C13_Witness ==
  \E c \in Clients :
    /\ call[c].pc = "done" /\ call[c].op = "searchTasks"
    /\ call[c].data.term = Some(<< "B" >>)
    /\ call[c].res.status = "ok" /\ Len(call[c].res.val) = 1
    /\ call[c].res.val[1].titulo = TitleB
    /\ Cardinality({i \in DocIds : store[i] # None}) = 2

\* the ids of the stored tasks of user uid that are completed
CompletedIds(uid) == {i \in OwnedIds(uid) : Val(store[i]).completed = Some(TRUE)}

\* C14: getTaskStats resolves to total = the number of owned tasks,
\* completed = the number of them that are completed, pending = total -
\* completed and completionRate = completed / total * 100 rounded to two
\* decimals (no hundredth is nearer), 0 when total is 0, never below 0 or
\* above 100; getTaskCounts resolves to the same three counts.  The rate is
\* in hundredths.
C14_StatsCounts ==
  [][\A c \in Clients :
       /\ GetDocsAnswered(c, "getTaskStats") =>
            LET r == call'[c].res.val
                total == Cardinality(OwnedIds(call[c].uid))
                done == Cardinality(CompletedIds(call[c].uid))
            IN  /\ call'[c].res.status = "ok"
                /\ r.total = total /\ r.completed = done
                /\ r.pending = total - done
                /\ total = 0 =>
                     r = [total |-> 0, completed |-> 0, pending |-> 0,
                          completionRate |-> 0]
                /\ total > 0 =>
                     /\ 2 * (r.completionRate * total - 100 * 100 * done) <= total
                     /\ 2 * (100 * 100 * done - r.completionRate * total) <= total
                /\ r.completionRate >= 0 /\ r.completionRate <= 100 * 100
       /\ GetDocsAnswered(c, "getTaskCounts") =>
            /\ call'[c].res.status = "ok"
            /\ call'[c].res.val =
                 [total |-> Cardinality(OwnedIds(call[c].uid)),
                  completed |-> Cardinality(CompletedIds(call[c].uid)),
                  pending |-> Cardinality(OwnedIds(call[c].uid))
                                - Cardinality(CompletedIds(call[c].uid))]]_vars

\* two of three tasks are completed: the rate is 66.67
C14_Witness ==
  \E c \in Clients :
    /\ call[c].pc = "done" /\ call[c].op = "getTaskStats"
    /\ call[c].res =
         Ok([total |-> 3, completed |-> 2, pending |-> 1, completionRate |-> 6667])

\* the step in which the first read of toggleTaskCompletion of client c is
\* answered by the store
ToggleReads(c) ==
  /\ call[c].pc = "getDoc" /\ call[c].op = "toggleTaskCompletion"
  /\ call[c].stage = 1 /\ call'[c] # call[c] /\ call'[c].reply = "ok"

\* the step in which the write of toggleTaskCompletion of client c succeeds
ToggleWrites(c) ==
  /\ call[c].pc = "updateDoc" /\ call[c].op = "toggleTaskCompletion"
  /\ call'[c].pc = "done" /\ call'[c].res.status = "ok"

\* C15: toggleTaskCompletion of an owned task goes on from its read to write
\* completed = the negation of the value read and nothing else, and the
\* write changes that field of that task alone; on an id that resolves to
\* no record it fails with the not-found error and writes nothing.
C15_ToggleFlipsCompleted ==
  [][\A c \in Clients :
       /\ ( ToggleReads(c) /\ SnapshotOf(call[c].taskId) = None ) =>
            /\ call'[c].pc = "done" /\ call'[c].res = Err(MsgNotFound)
            /\ call'[c].writes = 0 /\ store' = store
       /\ ( /\ ToggleReads(c) /\ SnapshotOf(call[c].taskId) # None
            /\ Val(SnapshotOf(call[c].taskId)).userId = Some(session[c]) ) =>
            /\ call'[c].pc = "getDoc"
            /\ call'[c].data =
                 [completed |->
                    Some(~Val(Val(SnapshotOf(call[c].taskId)).completed))]
       /\ ( call[c].op = "toggleTaskCompletion" /\ call'[c].pc = "updateDoc" ) =>
            call'[c].write = [completed |-> call'[c].data.completed]
       /\ ToggleWrites(c) =>
            /\ store'[call[c].taskId] # None
            /\ Val(store'[call[c].taskId]) =
                 [Val(store[call[c].taskId])
                    EXCEPT !.completed = call[c].data.completed]
            /\ \A j \in DocIds \ {call[c].taskId} : store'[j] = store[j]]_vars

\* a toggle has left a completed task that has every field not completed
C15_Witness ==
  \E c \in Clients :
    /\ call[c].pc = "done" /\ call[c].op = "toggleTaskCompletion"
    /\ call[c].res.status = "ok"
    /\ store[call[c].taskId] # None
    /\ LET d == Val(store[call[c].taskId])
       IN  /\ d.completed = Some(FALSE) /\ d.titulo = Some(TitleA)
           /\ d.Descripcion = Some(DescD) /\ d.Fecha # None

\* the keys of an update with a value
Touched(data) == {k \in DOMAIN FieldOf \cap DOMAIN data : data[k] # None}

\* the record doc holds, for key k, the value the update data gives it
Holds(doc, data, k) ==
  IF k = "fecha"
    THEN doc.Fecha # None /\ TimestampToDate(Val(doc.Fecha)) = Val(data.fecha)
    ELSE doc[FieldOf[k]] = data[k]

\* the updateTask calls of c and d on one task have both succeeded
BothUpdated(c, d) ==
  /\ c # d /\ call[c].taskId = call[d].taskId
  /\ \A e \in {c, d} :
       /\ call[e].pc = "done" /\ call[e].op = "updateTask"
       /\ call[e].res.status = "ok"

\* C16: two callers update one owned task, in any interleaving.  Each write
\* that succeeds leaves every field it touches at its value and every other
\* field as it was (so the later write wins, field by field); after both
\* have succeeded a field touched by one update holds that update's value
\* and a field touched by both holds the value of one of the two.
C16_LastWriteWinsPerField ==
  [][/\ \A c \in Clients :
          UpdateApplied(c) =>
            LET before == Val(store[call[c].taskId])
                after == Val(store'[call[c].taskId])
            IN  /\ store'[call[c].taskId] # None
                /\ \A k \in Touched(call[c].data) : Holds(after, call[c].data, k)
                /\ \A f \in DOMAIN before :
                     f \notin {FieldOf[k] : k \in Touched(call[c].data)} =>
                       after[f] = before[f]
     /\ \A c, d \in Clients :
          BothUpdated(c, d)' =>
            LET doc == Val(store'[call'[c].taskId])
                dc == call'[c].data
                dd == call'[d].data
            IN  /\ store'[call'[c].taskId] # None
                /\ \A k \in Touched(dc) \ Touched(dd) : Holds(doc, dc, k)
                /\ \A k \in Touched(dc) \cap Touched(dd) :
                     Holds(doc, dc, k) \/ Holds(doc, dd, k)]_vars

\* two updates of one task by two callers, one of its title and one of its
\* description, have succeeded: both changes are stored
C16_Witness ==
  \E c, d \in Clients :
    /\ BothUpdated(c, d)
    /\ call[c].data = SetTitle /\ call[d].data = SetDescription
    /\ LET doc == Val(store[call[c].taskId])
       IN  doc.titulo = SetTitle.titulo /\ doc.Descripcion = SetDescription.descripcion

\* the messages of the rules the fields that data has break at time t
ViolatedRules(data, t) ==
  {m \in ValidationMessages :
     \/ m = MsgTitleRequired /\ "titulo" \in DOMAIN data /\ BlankTitle(data)
     \/ /\ m = MsgTitleLength /\ Get(data, "titulo") # None
        /\ Len(Val(data.titulo)) > MAX_TITLE_LENGTH
     \/ /\ m = MsgDescLength /\ Get(data, "descripcion") # None
        /\ Len(Val(data.descripcion)) > MAX_DESCRIPTION_LENGTH
     \/ /\ m = MsgDatePast /\ Get(data, "fecha") # None
        /\ \E d \in 0..(TicksPerDay - 1) :
             (t - d) % TicksPerDay = 0 /\ Val(data.fecha) < t - d}

\* C17: validateTask returns, for every payload, the messages of exactly
\* the rules that the fields the payload has break, each once (none for a
\* field it lacks), and isValid is true exactly when there is none.
C17_ValidateTaskAllViolations ==
  \A c \in Clients :
    ( call[c].op = "validateTask" /\ call[c].pc = "done" ) =>
      /\ call[c].res.status = "ok"
      /\ LET r == call[c].res.val
             V == ViolatedRules(call[c].data, now)
         IN  /\ {r.errors[i] : i \in 1..Len(r.errors)} = V
             /\ Len(r.errors) = Cardinality(V)
             /\ r.isValid = (r.errors = << >>)

\* fromFirestore has been applied to the record toFirestore made of a task
RoundTripDone(c) == call[c].op = "toFirestore" /\ call[c].pc = "done"

\* C18 as stated: fromFirestore applied to toFirestore(T, owner) reproduces
\* the title, description, completed and due date of T exactly.
C18_RoundTripExact ==
  \A c \in Clients :
    RoundTripDone(c) =>
      /\ call[c].res.status = "ok"
      /\ LET task == Val(call[c].res.val)
             T == call[c].data
         IN  /\ task.titulo = Val(T.titulo)
             /\ task.descripcion = Get(T, "descripcion")
             /\ task.completed = Val(T.completed)
             /\ task.fecha = Get(T, "fecha")

\* C18 amended: fromFirestore applied to toFirestore(T, owner) reproduces the
\* title, completed and due date of T exactly, and its description but that
\* an empty description comes back as none (undefined).
C18_RoundTrip ==
  \A c \in Clients :
    RoundTripDone(c) =>
      /\ call[c].res.status = "ok"
      /\ LET task == Val(call[c].res.val)
             T == call[c].data
         IN  /\ task.titulo = Val(T.titulo)
             /\ task.descripcion =
                  IF Get(T, "descripcion") = Some(Str0) THEN None
                  ELSE Get(T, "descripcion")
             /\ task.completed = Val(T.completed)
             /\ task.fecha = Get(T, "fecha")

\* a completed task with a description, due one millisecond after the
\* start of the clock, has gone to a record and back
C18_Witness ==
  \E c \in Clients :
    /\ RoundTripDone(c) /\ call[c].res.status = "ok"
    /\ Get(call[c].data, "fecha") = Some(1)
    /\ Val(call[c].res.val).fecha = Some(1)
    /\ Val(call[c].res.val).descripcion = Some(DescD)
    /\ Val(call[c].res.val).completed

\* C19: toFirestore makes a record only of a task whose title is not empty
\* and has at most 100 characters, and only for an owner; otherwise it
\* fails.
C19_ToFirestoreRejects ==
  \A c \in Clients :
    ( call[c].op = "toFirestore" /\ call[c].write # << >> ) =>
      /\ Len(Val(call[c].data.titulo)) >= 1
      /\ Len(Val(call[c].data.titulo)) <= MAX_TITLE_LENGTH
      /\ call[c].uid \in Users

\* C20: fromFirestore returns a task for every record, whatever fields it
\* lacks and whatever a field that is there holds: title empty, description
\* and due date none, completed false for what is lacking or no Timestamp.
C20_FromFirestoreDefaults ==
  \A c \in Clients :
    ( call[c].op = "fromFirestore" /\ call[c].pc = "done" ) =>
      /\ call[c].res.status = "ok"
      /\ LET task == Val(call[c].res.val)
             record == call[c].write
         IN  /\ record.titulo = None => task.titulo = Str0
             /\ record.Descripcion = None => task.descripcion = None
             /\ record.completed = None => task.completed = FALSE
             /\ ( record.Fecha = None \/ ~hasToDate(Val(record.Fecha)) ) =>
                  task.fecha = None

(***************************************************************************)
(* C21: failures of the remote store                                       *)
(***************************************************************************)
AwaitPcs == {"getDoc", "addDoc", "updateDoc", "deleteDoc", "getDocs"}

\* a remote call of client c ends in a failure of the store
StoreFails(c) ==
  /\ call[c].pc \in AwaitPcs
  /\ call'[c] # call[c]
  /\ call'[c].reply # "ok"

\* the messages that tell no more than which operation failed
GenericMessages ==
  {MsgListFailed, MsgCreateFailed, MsgGetFailed, MsgUpdateFailed,
   MsgDeleteFailed, MsgBatchFailed, MsgSearchFailed, MsgCountsFailed}

\* the operation ends at the failure, issues no further remote call and
\* rejects with one of the messages of M
SurfacedAs(c, M) ==
  /\ call'[c].pc = "done"
  /\ call'[c].remotes = call[c].remotes
  /\ call'[c].writes = call[c].writes
  /\ call'[c].res.status = "error"
  /\ call'[c].res.msg \in M

\* C21: when a remote call fails, the operation issues no further remote
\* call (no retry), reports no success, and rejects with a generic message
\* that does not tell one kind of store failure from another.
C21_StoreFailureGeneric ==
  [][\A c \in Clients : StoreFails(c) => SurfacedAs(c, GenericMessages)]_vars

\* C21 amended: when a remote call fails, the operation issues no further
\* remote call, reports no success, and rejects with the generic message of
\* the operation, except that listing and creating tell a permission-denied
\* failure apart and reject with a no-permission message.
C21_StoreFailureSurfaced ==
  [][\A c \in Clients :
       StoreFails(c) =>
         /\ SurfacedAs(c, GenericMessages \cup StoreUnavailableMessages)
         /\ ( call'[c].res.msg \in {MsgNoPermList, MsgNoPermCreate} =>
                /\ call'[c].reply = "permission-denied"
                /\ call[c].pc \in {"getDocs", "addDoc"} )]_vars

\* an update has failed at its write, the second of its two remote calls
C21_Witness ==
  \E c \in Clients :
    /\ call[c].op = "updateTask" /\ call[c].pc = "done"
    /\ call[c].reply = "unavailable" /\ call[c].remotes = 2
    /\ call[c].writes = 1
    /\ call[c].res = Err(MsgUpdateFailed)

(***************************************************************************)
(* AlarmService.  A call of an async method runs to its first await at     *)
(* once.  triggerFlash awaits enableFlash, which has already set the flag: *)
(* its continuation is a microtask, run in order before the runtime        *)
(* dispatches the next timer or plugin reply; a caller can issue another   *)
(* call before the continuation runs.  Haptics.vibrate is answered by the  *)
(* native plugin at any later time.  console.log does not throw, so the    *)
(* catch blocks of triggerFlash, enableFlash and disableFlash never run.   *)
(***************************************************************************)
VibrationOk == AlarmResponse(TRUE, "Vibracion activada", None)

VibrationFailed == AlarmResponse(FALSE, "Error al activar vibracion", Some("HapticsError"))

FlashOk == AlarmResponse(TRUE, "Flash activado", None)

FlashAlreadyActive ==
  AlarmResponse(FALSE, "Flash ya esta activo", Some("FLASH_ALREADY_ACTIVE"))

\* get isActive
isActive == isFlashActive

\* disableFlash, run while the timers T are pending: clears the timer whose
\* handle is kept, forgets the handle and switches the flash off
disableFlash(T) ==
  /\ timers' = IF flashTimeout # None THEN T \ {Val(flashTimeout)} ELSE T
  /\ flashTimeout' = None
  /\ isFlashActive' = FALSE

\* triggerAlarm, once the results of its actions are there
triggerAlarmFirstError(results) ==
  LET failed == {i \in DOMAIN results : ~results[i].success}
  IN  IF failed # {}
        THEN results[CHOOSE i \in failed : \A j \in failed : i <= j]
        ELSE AlarmResponse(TRUE, "Alarma activada correctamente", None)

triggerAlarmResponse(results) ==
  LET hasErrors == \E i \in DOMAIN results : ~results[i].success
  IN  IF hasErrors
        THEN AlarmResponse(FALSE, "Alarma ejecutada con algunos errores",
                           Some("PARTIAL_FAILURE"))
        ELSE AlarmResponse(TRUE, "Alarma activada correctamente", None)

\* setTimeout can still return a handle, counting the triggers under way
RoomToSchedule == timerIds + Len(microtasks) < MaxTimers

\* triggerAlarm(config) up to its await: triggerVibration calls the plugin,
\* triggerFlash returns at once when the flash is active and otherwise runs
\* enableFlash and awaits it
TriggerAlarm(c, type) ==
  /\ alarmCall[c].pc = "idle"
  /\ LET vibrates == type \in {AlarmType.VIBRATION, AlarmType.BOTH}
         flashes == type \in {AlarmType.FLASH, AlarmType.BOTH}
         enables == flashes /\ ~isFlashActive
         k == [IdleAlarmCall EXCEPT !.op = "triggerAlarm", !.type = type]
     IN  /\ enables => RoomToSchedule
         /\ isFlashActive' = (isFlashActive \/ enables)
         /\ microtasks' = IF enables THEN Append(microtasks, c) ELSE microtasks
         /\ alarmCall' = [alarmCall EXCEPT ![c] =
              IF ~vibrates /\ ~flashes
                THEN [k EXCEPT !.pc = "done",
                        !.res = << AlarmResponse(FALSE, "Tipo de alarma no valido",
                                                 Some("INVALID_ALARM_TYPE")) >>]
                ELSE [k EXCEPT !.pc = "running",
                        !.vibration = IF vibrates THEN Pending ELSE NotCalled,
                        !.flash = IF ~flashes THEN NotCalled
                                  ELSE IF enables THEN Pending
                                  ELSE Settled(FlashAlreadyActive)]]
  /\ UNCHANGED << flashTimeout, timers, timerIds, fired, taskVars >>

\* a triggerFlash that schedules no switching off
FlashResumesWithoutTimer ==
  /\ microtasks # << >>
  /\ alarmCall' = [alarmCall EXCEPT ![Head(microtasks)].flash = Settled(FlashOk)]
  /\ microtasks' = Tail(microtasks)
  /\ UNCHANGED << isFlashActive, flashTimeout, timers, timerIds, fired, taskVars >>

\* triggerFlash after its await: schedules the switching off and keeps the
\* handle of the timer
FlashResumes ==
  /\ microtasks # << >>
  /\ LET c == Head(microtasks)
         h == timerIds + 1
     IN  /\ flashTimeout' = Some(h)
         /\ timers' = timers \cup {h}
         /\ timerIds' = h
         /\ alarmCall' = [alarmCall EXCEPT ![c].flash = Settled(FlashOk)]
  /\ microtasks' = Tail(microtasks)
  /\ UNCHANGED << isFlashActive, fired, taskVars >>

\* Haptics.vibrate resolves or rejects
VibrateReplies(c, ok) ==
  /\ microtasks = << >>
  /\ alarmCall[c].vibration = Pending
  /\ alarmCall' = [alarmCall EXCEPT ![c].vibration =
       Settled(IF ok THEN VibrationOk ELSE VibrationFailed)]
  /\ UNCHANGED << isFlashActive, flashTimeout, timers, timerIds, fired,
                  microtasks, taskVars >>

\* the results a call has pushed, vibration first
resultsOf(k) ==
  (IF k.vibration.st = "settled" THEN k.vibration.res ELSE << >>)
    \o (IF k.flash.st = "settled" THEN k.flash.res ELSE << >>)

\* triggerAlarm after its await: every action has settled
TriggerSettles(c) ==
  /\ alarmCall[c].pc = "running"
  /\ alarmCall[c].vibration # Pending
  /\ alarmCall[c].flash # Pending
  /\ alarmCall' = [alarmCall EXCEPT ![c].pc = "done",
       ![c].res = << triggerAlarmResponse(resultsOf(alarmCall[c])) >>]
  /\ UNCHANGED << isFlashActive, flashTimeout, timers, timerIds, fired,
                  microtasks, taskVars >>

\* stopAlarm: disableFlash runs before the await
StopAlarm(c) ==
  /\ alarmCall[c].pc = "idle"
  /\ disableFlash(timers)
  /\ alarmCall' = [alarmCall EXCEPT ![c] =
       [IdleAlarmCall EXCEPT !.op = "stopAlarm", !.pc = "done",
          !.res = << AlarmResponse(TRUE, "Alarma detenida", None) >>]]
  /\ UNCHANGED << timerIds, fired, microtasks, taskVars >>

\* the callback of setTimeout runs disableFlash
TimerFires(h) ==
  /\ microtasks = << >>
  /\ h \in timers
  /\ disableFlash(timers \ {h})
  /\ fired' = fired \cup {h}
  /\ UNCHANGED << timerIds, microtasks, alarmCall, taskVars >>

\* the caller takes the response
AlarmReturn(c) ==
  /\ alarmCall[c].pc = "done"
  /\ alarmCall' = [alarmCall EXCEPT ![c] = IdleAlarmCall]
  /\ UNCHANGED << isFlashActive, flashTimeout, timers, timerIds, fired,
                  microtasks, taskVars >>

\* the types a caller passes: those of AlarmType and one that is none of them
TypeInputs == {AlarmType.VIBRATION, AlarmType.FLASH, AlarmType.BOTH, "none"}

NextAlarm ==
  \/ \E c \in AlarmCallers, type \in TypeInputs : TriggerAlarm(c, type)
  \/ FlashResumes
  \/ \E c \in AlarmCallers, ok \in BOOLEAN : VibrateReplies(c, ok)
  \/ \E c \in AlarmCallers : TriggerSettles(c)
  \/ \E c \in AlarmCallers : StopAlarm(c)
  \/ \E h \in 1..MaxTimers : TimerFires(h)
  \/ \E c \in AlarmCallers : AlarmReturn(c)

SpecAlarm == Init /\ [][NextAlarm]_vars

\* the runtime runs every continuation and lets every pending timer fire
SpecAlarmFair ==
  /\ SpecAlarm
  /\ WF_vars(FlashResumes)
  /\ \A h \in 1..MaxTimers : WF_vars(TimerFires(h))

(***************************************************************************)
(* C22, C23, C24, C30: the flash and its timer                             *)
(***************************************************************************)
\* caller c calls triggerAlarm with a type that runs triggerFlash
TriggersFlash(c) ==
  /\ alarmCall[c].pc = "idle"
  /\ alarmCall'[c].op = "triggerAlarm"
  /\ alarmCall'[c].flash # NotCalled

\* C22: a flash trigger issued while an auto-off timer is pending is
\* rejected with FLASH_ALREADY_ACTIVE and schedules nothing, and at every
\* moment at most one auto-off timer is pending.
C22_OneFlashTimer ==
  [][ /\ \A c \in AlarmCallers :
           ( TriggersFlash(c) /\ timers # {} ) =>
             /\ alarmCall'[c].flash = Settled(FlashAlreadyActive)
             /\ microtasks' = microtasks
      /\ Cardinality(timers') <= 1 ]_vars

OneFailed(k) ==
  /\ k.vibration.st = "settled" /\ k.flash.st = "settled"
  /\ Val(k.vibration.res).success # Val(k.flash.res).success

\* C24: a trigger of type BOTH of which exactly one action failed reports
\* success = false with error PARTIAL_FAILURE, and neither the failure of
\* the vibration nor the report changes the flash: whether it is active,
\* the handle kept and the pending timers stay as they are.
C24_PartialFailure ==
  [][\A c \in AlarmCallers :
       /\ ( TriggerSettles(c) /\ alarmCall[c].type = AlarmType.BOTH
              /\ OneFailed(alarmCall[c]) ) =>
            /\ ~Val(alarmCall'[c].res).success
            /\ Val(alarmCall'[c].res).error = Some("PARTIAL_FAILURE")
            /\ UNCHANGED << isFlashActive, flashTimeout, timers >>
       /\ VibrateReplies(c, FALSE) =>
            UNCHANGED << isFlashActive, flashTimeout, timers >>]_vars

\* the vibration of a trigger of type BOTH failed, the trigger has reported
\* it, and the flash it switched on is active with its timer pending
C24_Witness ==
  \E c \in AlarmCallers :
    /\ alarmCall[c].pc = "done" /\ alarmCall[c].type = AlarmType.BOTH
    /\ alarmCall[c].vibration = Settled(VibrationFailed)
    /\ alarmCall[c].flash = Settled(FlashOk)
    /\ Val(alarmCall[c].res).error = Some("PARTIAL_FAILURE")
    /\ isFlashActive /\ flashTimeout # None /\ Val(flashTimeout) \in timers

\* no triggerFlash is between enableFlash and setTimeout
TriggersReturned == microtasks = << >>

\* C30: once the triggers have returned, the flash is active whenever a
\* timer is pending and every pending timer is the one whose handle is
\* kept; stopAlarm leaves the flash off and no timer pending; a timer that
\* fires while the flash is active is the one whose handle is kept.
C30_TimerOfActiveFlash ==
  [][ /\ ( TriggersReturned' /\ timers' # {} ) =>
           /\ isFlashActive'
           /\ timers' = {Val(flashTimeout')}
      /\ \A c \in AlarmCallers :
           StopAlarm(c) => ( ~isFlashActive' /\ timers' = {} )
      /\ \A h \in 1..MaxTimers :
           ( TimerFires(h) /\ isFlashActive ) => flashTimeout = Some(h) ]_vars

(***************************************************************************)
(* AlarmController.validateCustomConfig on its own: a configuration is     *)
(* drawn at the start and validated                                        *)
(***************************************************************************)
MIN_VIBRATION_DURATION == 50

MAX_VIBRATION_DURATION == 5000

MIN_FLASH_DURATION == 1000

MAX_FLASH_DURATION == 10000

MsgVibrationRange == "Duracion de vibracion debe estar entre 50 y 5000ms"

MsgFlashRange == "Duracion de flash debe estar entre 1000 y 10000ms"

\* the truthiness of config[key]: a key that is lacking or undefined, and
\* the number 0, are falsy
TruthyNumber(config, key) ==
  /\ Get(config, key) # None
  /\ Val(Get(config, key)) # 0

\* config[key] && (config[key] < min || config[key] > max)
outOfRange(config, key, min, max) ==
  /\ TruthyNumber(config, key)
  /\ ( Val(Get(config, key)) < min \/ Val(Get(config, key)) > max )

validateCustomConfig(config) ==
  LET errors ==
        (IF outOfRange(config, "vibrationDuration",
                       MIN_VIBRATION_DURATION, MAX_VIBRATION_DURATION)
           THEN << MsgVibrationRange >> ELSE << >>)
          \o (IF outOfRange(config, "flashDuration",
                            MIN_FLASH_DURATION, MAX_FLASH_DURATION)
                THEN << MsgFlashRange >> ELSE << >>)
  IN  [isValid |-> Len(errors) = 0, errors |-> errors]

\* the configurations: each duration lacking (<< >>), undefined or a number
\* at, below or above a limit of its range, 0 or negative
ConfigInputs ==
  LET around(min, max) ==
        {<< >>, << None >>}
          \cup {<< Some(n) >> : n \in {0 - 1, 0, min - 1, min, max, max + 1}}
      Config(v, f) ==
        LET ch == [vibrationDuration |-> v, flashDuration |-> f]
        IN  [k \in {j \in DOMAIN ch : ch[j] # << >>} |-> ch[k][1]]
  IN  {Config(v, f) :
         v \in around(MIN_VIBRATION_DURATION, MAX_VIBRATION_DURATION),
         f \in around(MIN_FLASH_DURATION, MAX_FLASH_DURATION)}

InitConfig ==
  /\ store = [i \in DocIds |-> None]
  /\ nextId = 0
  /\ session = [c \in Clients |-> NoUser]
  /\ now = 0
  /\ \E config \in ConfigInputs :
       call = [c \in Clients |->
                 IF c = "c1"
                   THEN NewCall("validateCustomConfig", "alarmController",
                                UnknownId, config)
                   ELSE IdleCall]
  /\ origin = [i \in DocIds |-> None]
  /\ deleted = {}
  /\ InitAlarmService

ValidateCustomConfig(c) ==
  /\ CanStart(c) /\ call[c].op = "validateCustomConfig"
  /\ Begin(c, Finish(call[c], Ok(validateCustomConfig(call[c].data))))

NextConfig == ValidateCustomConfig("c1")

SpecConfig == InitConfig /\ [][NextConfig]_vars

\* the key is there with a number
Supplied(config, key) == Get(config, key) # None

Within(config, key, min, max) ==
  Val(Get(config, key)) >= min /\ Val(Get(config, key)) <= max

\* message m is among the errors
Reports(result, m) == \E i \in DOMAIN result.errors : result.errors[i] = m

\* C25: the validation answers with the range message of the vibration
\* exactly when a vibrationDuration is supplied and is not within 50..5000,
\* with that of the flash exactly when a flashDuration is supplied and is
\* not within 1000..10000, 0 and negative values included, and the result
\* is valid exactly when it carries no message.
C25_DurationsWithinRange ==
  \A c \in Clients :
    ( call[c].op = "validateCustomConfig" /\ call[c].pc = "done" ) =>
      LET config == call[c].data
          result == call[c].res.val
      IN  /\ Reports(result, MsgVibrationRange) <=>
               ( Supplied(config, "vibrationDuration")
                 /\ ~Within(config, "vibrationDuration",
                            MIN_VIBRATION_DURATION, MAX_VIBRATION_DURATION) )
          /\ Reports(result, MsgFlashRange) <=>
               ( Supplied(config, "flashDuration")
                 /\ ~Within(config, "flashDuration",
                            MIN_FLASH_DURATION, MAX_FLASH_DURATION) )
          /\ result.isValid <=> ( Len(result.errors) = 0 )

(***************************************************************************)
(* dataService, the module the pages and components import: its functions  *)
(* by id work on the collection 'Tareas', the one TaskService uses         *)
(***************************************************************************)
MsgData ==
  [ getTaskById |-> "No se pudo obtener la tarea",
    updateTask  |-> "No se pudo actualizar la tarea",
    deleteTask  |-> "No se pudo eliminar la tarea" ]

mapFirestoreToTask(id, data, t) ==
  [ id          |-> id,
    titulo      |-> IF TruthyStr(data.titulo) THEN Val(data.titulo) ELSE Str0,
    descripcion |-> IF TruthyStr(data.Descripcion) THEN data.Descripcion
                    ELSE Some(Str0),
    completed   |-> ToBoolean(data.completed),
    fecha       |-> IF data.Fecha # None
                      THEN Some(TimestampToDate(Val(data.Fecha))) ELSE None,
    userId      |-> IF data.userId # None THEN Val(data.userId) ELSE "",
    createdAt   |-> IF data.createdAt # None
                      THEN TimestampToDate(Val(data.createdAt)) ELSE t ]

\* updateTask: a title that is there and blank makes it throw inside its try
emptyTitle(updates) ==
  Get(updates, "titulo") # None /\ trim(Val(Get(updates, "titulo"))) = Str0

\* updatesToSave of updateTask: the keys that are not undefined, under the
\* names of the store, completed as a boolean and fecha as a Timestamp
updatesToSave(updates) ==
  LET ks == {k \in UpdateKeys : Get(updates, k) # None}
  IN  [f \in {updateField(k) : k \in ks} |->
         LET k == CHOOSE k \in ks : updateField(k) = f
         IN  updateValue(k, updates[k])]

\* !taskId
noTaskId(id) == id = BlankId

DataGetTaskById(c, id) ==
  /\ CanStart(c)
  /\ LET k == NewCall("getTaskById", "dataService", id, << >>)
     IN  Begin(c, IF noTaskId(id) THEN Finish(k, Err(MsgIdRequired))
                  ELSE Await(k, "dataGetDoc"))

DataUpdateTask(c, id, updates) ==
  /\ CanStart(c)
  /\ LET k == NewCall("updateTask", "dataService", id, updates)
     IN  Begin(c, IF noTaskId(id) THEN Finish(k, Err(MsgIdRequired))
                  ELSE IF emptyTitle(updates) THEN Finish(k, Err(MsgData.updateTask))
                  ELSE AwaitWrite(k, "dataUpdateDoc", updatesToSave(updates)))

DataDeleteTask(c, id) ==
  /\ CanStart(c)
  /\ LET k == NewCall("deleteTask", "dataService", id, << >>)
     IN  Begin(c, IF noTaskId(id) THEN Finish(k, Err(MsgIdRequired))
                  ELSE AwaitWrite(k, "dataDeleteDoc", << >>))

\* getTaskById after its await of getDoc
DataAwaitGetDoc(c) ==
  /\ call[c].pc = "dataGetDoc"
  /\ \E outcome \in StoreOutcomes :
       LET k == Replied(call[c], outcome)
           snap == SnapshotOf(k.taskId)
       IN  call' = [call EXCEPT ![c] = Finish(k,
             IF outcome # "ok" THEN Err(MsgData.getTaskById)
             ELSE IF snap = None THEN Null
             ELSE IF fromFirestoreThrows(Val(snap)) THEN Err(MsgData.getTaskById)
             ELSE Ok(Some(mapFirestoreToTask(k.taskId, Val(snap), now))))]
  /\ UNCHANGED << store, nextId, session, now, origin, deleted, alarmVars >>

\* updateTask after its await of updateDoc
DataAwaitUpdateDoc(c) ==
  /\ call[c].pc = "dataUpdateDoc"
  /\ \E outcome \in StoreOutcomes :
       LET k == Replied(call[c],
                  IF outcome = "ok" /\ SnapshotOf(call[c].taskId) = None
                    THEN "not-found" ELSE outcome)
       IN
           IF k.reply = "ok"
             THEN /\ store' = [store EXCEPT ![k.taskId] =
                                 Some(merge(Val(store[k.taskId]), k.write))]
                  /\ call' = [call EXCEPT ![c] = Finish(k, Ok(<< >>))]
             ELSE /\ call' = [call EXCEPT ![c] = Finish(k, Err(MsgData.updateTask))]
                  /\ UNCHANGED store
  /\ UNCHANGED << nextId, session, now, origin, deleted, alarmVars >>

\* deleteTask after its await of deleteDoc
DataAwaitDeleteDoc(c) ==
  /\ call[c].pc = "dataDeleteDoc"
  /\ \E outcome \in StoreOutcomes :
       LET k == Replied(call[c], outcome)
       IN
           IF outcome = "ok"
             THEN /\ store' = [store EXCEPT ![k.taskId] = None]
                  /\ deleted' = deleted \cup {k.taskId}
                  /\ call' = [call EXCEPT ![c] = Finish(k, Ok(<< >>))]
             ELSE /\ call' = [call EXCEPT ![c] = Finish(k, Err(MsgData.deleteTask))]
                  /\ UNCHANGED << store, deleted >>
  /\ UNCHANGED << nextId, session, now, origin, alarmVars >>

\* user A creates a task through TaskService; a second session, of user B
\* or of nobody, calls dataService by id
NextData ==
  \/ Login("c1", "uA")
  \/ Login("c2", "uB")
  \/ SvcCreateTask("c1", NewPlain, 1)
  \/ AwaitAddDoc("c1")
  \/ \E c \in Clients : Return(c)
  \/ \E c \in Clients, id \in {1, BlankId} : DataGetTaskById(c, id)
  \/ \E c \in Clients, id \in {1, BlankId}, updates \in {SetCompleted, SetEmptyTitle} :
       DataUpdateTask(c, id, updates)
  \/ \E c \in Clients, id \in {1, BlankId} : DataDeleteTask(c, id)
  \/ \E c \in Clients : DataAwaitGetDoc(c)
  \/ \E c \in Clients : DataAwaitUpdateDoc(c)
  \/ \E c \in Clients : DataAwaitDeleteDoc(c)

SpecData == Init /\ [][NextData]_vars

\* a call of dataService by client c goes on after its await
DataResolves(c) ==
  /\ call[c].via = "dataService"
  /\ call[c].pc \in {"dataGetDoc", "dataUpdateDoc", "dataDeleteDoc"}
  /\ call'[c] # call[c]

\* C26: a call of dataService by id returns, modifies or deletes a task
\* only when the task belongs to the user of the session that calls.
C26_DataServiceOwnership ==
  [][\A c \in Clients :
       DataResolves(c) =>
         /\ call'[c].res.status = "ok" /\ call'[c].res.val # << >> =>
              Val(call'[c].res.val).userId = session[c]
         /\ \A id \in DocIds :
              store'[id] # store[id] =>
                Val(store[id]).userId = Some(session[c])]_vars

(***************************************************************************)
(* C27, C28, C29: what overlaps a call of TaskService while it awaits      *)
(***************************************************************************)
\* getTaskById of client c returns a task to its caller
ReturnsTask(c) ==
  /\ call[c].pc = "getDoc"
  /\ call'[c].pc = "done"
  /\ call'[c].op = "getTaskById"
  /\ call'[c].res.status = "ok"

\* updateTask or deleteTask of client c issues its write
IssuesWrite(c) ==
  /\ call[c].pc = "getDoc"
  /\ call'[c].pc \in {"updateDoc", "deleteDoc"}

\* C27: whoever the session belongs to when getDoc answers, a task that
\* getTaskById returns and a task that updateTask or deleteTask sends its
\* write for belongs to the user of the session at that moment.
C27_SessionAtContinuation ==
  [][\A c \in Clients :
       /\ ReturnsTask(c) => Val(call'[c].res.val).userId = session'[c]
       /\ IssuesWrite(c) =>
            /\ SnapshotOf(call[c].taskId) # None
            /\ Val(SnapshotOf(call[c].taskId)).userId = Some(session'[c])]_vars

\* an update passed ensureAuthenticated, the session ended while it awaited
\* getDoc, the store answered and the update was given up without a write
C27_Witness ==
  \E c \in Clients :
    /\ call[c].op = "updateTask" /\ call[c].pc = "done"
    /\ call[c].remotes = 1 /\ call[c].reply = "ok" /\ call[c].writes = 0
    /\ call[c].res = Err(MsgUpdateFailed)
    /\ SnapshotOf(call[c].taskId) # None

\* two callers of one user: a task is created, then each of them updates,
\* toggles or deletes it once, the two calls overlapping in every way
NextOverlap ==
  \/ \E c \in Clients : Login(c, "uA")
  \/ \E c \in Clients : SvcCreateTask(c, NewFull, 1)
  \/ \E c \in Clients : ReturnCreated(c)
  \/ \E c \in Clients : SvcUpdateTask(c, 1, SetTitle)
  \/ \E c \in Clients : CtlToggleTaskCompletion(c, 1)
  \/ \E c \in Clients : SvcDeleteTask(c, 1)
  \/ \E c \in Clients : AwaitAddDoc(c)
  \/ \E c \in Clients : AwaitGetDoc(c)
  \/ \E c \in Clients : AwaitUpdateDoc(c)
  \/ \E c \in Clients : AwaitDeleteDoc(c)

SpecOverlap == Init /\ [][NextOverlap]_vars

\* the write of client c is answered after a deleteDoc has removed its task:
\* the task was there when getTaskById looked
WriteAfterDelete(c) ==
  /\ call[c].pc = "updateDoc"
  /\ call[c].taskId \in deleted
  /\ call'[c] # call[c]

\* C28: when a deleteTask removes the task between the check and the write
\* of an updateTask or a toggle, the write does not create the task again:
\* the id stays without record and the update rejects.
C28_UpdateAfterDelete ==
  [][\A c \in Clients :
       WriteAfterDelete(c) =>
         /\ store'[call[c].taskId] = None
         /\ call'[c].pc = "done"
         /\ call'[c].res.status = "error"]_vars

\* a toggle found its task, a deleteTask removed it, and the write of the
\* toggle was refused by the store
C28_Witness ==
  \E c, d \in Clients :
    /\ call[c].op = "toggleTaskCompletion" /\ call[c].pc = "done"
    /\ call[c].writes = 1 /\ call[c].reply = "not-found"
    /\ call[c].res = Err(MsgUpdateFailed)
    /\ call[d].op = "deleteTask" /\ call[d].res.status = "ok"
    /\ call[c].taskId \in deleted /\ store[call[c].taskId] = None

\* C29: when two toggleTaskCompletion calls on the task have both resolved,
\* the stored completed is what it was before them.
C29_NoToggleLost ==
  ( \A c \in Clients :
      /\ call[c].op = "toggleTaskCompletion" /\ call[c].pc = "done"
      /\ call[c].res.status = "ok" ) =>
    /\ store[1] # None
    /\ Val(store[1]).completed = NewFull.completed

====
